---- MODULE Spec2Model ----
(***************************************************************************)
(* The CAPTCHA recognition engine of src/src/captcha.py as a state         *)
(* machine: CaptchaRecognizer.recognize runs the colour threshold and the  *)
(* 3x3 median filter, labels the connected regions, keeps and orders the   *)
(* character candidates, and classifies each one against the template      *)
(* database by Jaccard similarity.                                         *)
(*                                                                         *)
(* A numpy array is a record [h, w, on]: its shape and the set of          *)
(* <<row, column>> cells (0-based) that hold a nonzero value.  An image is *)
(* a record [h, w, px] with px the RGB triple of every cell.               *)
(***************************************************************************)
EXTENDS Integers, Sequences, FiniteSets, TLC

\* ------------------------------------------------------------ constants
\* captcha.py:56
target_size == 40
\* captcha.py:31, mask = (r > 100) & (g < 140) & (b < 140)
RedAbove == 100
GreenBelow == 140
BlueBelow == 140
\* captcha.py:32, median_filter(mask, size=3)
FilterSize == 3
\* captcha.py:42, h > 5 and w > 2
HeightAbove == 5
WidthAbove == 2
\* captcha.py:65, np.array(img) > 128, of 8-bit samples (captcha.py:58)
BinarizeAbove == 128
FullScale == 255

\* --------------------------------------------------------------- arrays
Cells(h, w) == (0 .. h - 1) \X (0 .. w - 1)

Arr(h, w, on) == [h |-> h, w |-> w, on |-> on]

Max2(a, b) == IF a >= b THEN a ELSE b

Min2(a, b) == IF a <= b THEN a ELSE b

MinOf(S) == CHOOSE x \in S : \A y \in S : x <= y

MaxOf(S) == CHOOSE x \in S : \A y \in S : x >= y

RECURSIVE SumTerms(_)
\* The sum of the third components of a set of <<row, column, term>>.
SumTerms(T) ==
  IF T = {} THEN 0
  ELSE LET t == CHOOSE t \in T : TRUE IN t[3] + SumTerms(T \ {t})

\* ------------------------------------------------- _extract_red_mask
\* captcha.py:30-31: a pixel is foreground when r > 100, g < 140, b < 140.
IsRed(rgb) == rgb[1] > RedAbove /\ rgb[2] < GreenBelow /\ rgb[3] < BlueBelow

threshold_mask(img) == Arr(img.h, img.w, {p \in Cells(img.h, img.w) : IsRed(img.px[p])})

\* scipy's default boundary mode 'reflect' (d c b a | a b c d | d c b a): for
\* a window of size 3 the one index outside the array maps to the edge cell.
Reflect(i, n) == IF i < 0 THEN 0 ELSE IF i > n - 1 THEN n - 1 ELSE i

Window == (-(FilterSize \div 2) .. (FilterSize \div 2)) \X (-(FilterSize \div 2) .. (FilterSize \div 2))

\* How many samples of the 3x3 window around p are foreground.
WindowCount(mask, p) ==
  Cardinality({d \in Window :
     <<Reflect(p[1] + d[1], mask.h), Reflect(p[2] + d[2], mask.w)>> \in mask.on})

\* The median of the FilterSize^2 boolean samples is true exactly when more
\* than half of them are.
median_filter(mask) ==
  Arr(mask.h, mask.w,
      {p \in Cells(mask.h, mask.w) : 2 * WindowCount(mask, p) > FilterSize * FilterSize})

\* The threshold mask goes to the segmenter as it is.
_extract_red_mask_raw(img) == threshold_mask(img)

\* captcha.py:28-33
_extract_red_mask(img) == median_filter(threshold_mask(img))

\* ------------------------------------------------ _extract_characters
\* scipy.ndimage.label with its default structuring element: a cell is
\* connected to its up, down, left and right neighbours.
Nbrs4(p) == {<<p[1] - 1, p[2]>>, <<p[1] + 1, p[2]>>, <<p[1], p[2] - 1>>, <<p[1], p[2] + 1>>}

RECURSIVE Flood(_, _, _)
Flood(frontier, seen, on) ==
  LET new == ((UNION {Nbrs4(p) : p \in frontier}) \cap on) \ seen
  IN IF new = {} THEN seen ELSE Flood(new, seen \cup new, on)

\* The first foreground cell in row-major (C) order.
FirstCell(on) ==
  LET r == MinOf({p[1] : p \in on})
      c == MinOf({p[2] : p \in {q \in on : q[1] = r}})
  IN <<r, c>>

RECURSIVE label(_)
\* The regions in label order 1..num: labels are given in the order in which
\* a row-major scan meets each region's first cell.
label(on) ==
  IF on = {} THEN <<>>
  ELSE LET p == FirstCell(on)
           region == Flood({p}, {p}, on)
       IN <<region>> \o label(on \ region)

\* The bounding slices of one labelled region: rows r0..r1-1, columns c0..c1-1.
BBox(region) ==
  [r0 |-> MinOf({p[1] : p \in region}), r1 |-> MaxOf({p[1] : p \in region}) + 1,
   c0 |-> MinOf({p[2] : p \in region}), c1 |-> MaxOf({p[2] : p \in region}) + 1]

find_objects(labels) == [i \in 1 .. Len(labels) |-> BBox(labels[i])]

\* A slip in the size test: either dimension large enough keeps the region.
IsValidCharEither(h, w) == h > HeightAbove \/ w > WidthAbove

\* captcha.py:42
IsValidChar(h, w) == h > HeightAbove /\ w > WidthAbove

\* captcha.py:43-44: labels[obj] == i + 1, as an array of the box's shape.
CharArr(region, obj) ==
  Arr(obj.r1 - obj.r0, obj.c1 - obj.c0,
      {<<p[1] - obj.r0, p[2] - obj.c0>> : p \in region})

RECURSIVE ValidChars(_, _, _)
\* captcha.py:39-45: the (start column, array) pairs in label order.
ValidChars(labels, objs, i) ==
  IF i > Len(labels) THEN <<>>
  ELSE LET obj == objs[i]
           rest == ValidChars(labels, objs, i + 1)
       IN IF IsValidChar(obj.r1 - obj.r0, obj.c1 - obj.c0)
          THEN <<[start |-> obj.c0, arr |-> CharArr(labels[i], obj)]>> \o rest
          ELSE rest

\* One step of a stable sort: x goes after every element whose key is <= its own.
InsertByStart(x, s) ==
  LET before == {i \in 1 .. Len(s) : s[i].start <= x.start}
      n == IF before = {} THEN 0 ELSE MaxOf(before)
  IN SubSeq(s, 1, n) \o <<x>> \o SubSeq(s, n + 1, Len(s))

\* The sort left out: the list stays in label order.
SortByStartSkipped(s, acc) == acc \o s

RECURSIVE SortByStart(_, _)
\* captcha.py:46: list.sort(key=start column), which is stable.
SortByStart(s, acc) ==
  IF s = <<>> THEN acc ELSE SortByStart(Tail(s), InsertByStart(Head(s), acc))

\* The early return of captcha.py:37 handing back the mask itself as one
\* candidate instead of the empty list.
sorted_valid_chars_whole_mask(mask) ==
  LET labels == label(mask.on)
      objs == find_objects(labels)
  IN IF Len(labels) = 0 THEN <<[start |-> 0, arr |-> Arr(mask.h, mask.w, {})]>>
     ELSE SortByStart(ValidChars(labels, objs, 1), <<>>)

\* captcha.py:36-46: the local list valid_chars once it is sorted.
sorted_valid_chars(mask) ==
  LET labels == label(mask.on)
      objs == find_objects(labels)
  IN IF Len(labels) = 0 THEN <<>> ELSE SortByStart(ValidChars(labels, objs, 1), <<>>)

\* captcha.py:47
CharsOf(valid_chars) == [i \in 1 .. Len(valid_chars) |-> valid_chars[i].arr]

\* captcha.py:35-47
_extract_characters(mask) == CharsOf(sorted_valid_chars(mask))

\* ---------------------------------------------------- _normalize_char
\* captcha.py:59-60 in IEEE-754 doubles: scale = min(40/h, 40/w) is the double
\* nearest to 40/max(h, w), and d * scale is rounded once more before int()
\* truncates it.  For max(h, w) <= 260 the rounded product falls just below the
\* exact integer 40*d/max(h, w) for exactly these <<d, max(h, w)>>.
FloatShort ==
  {<<77, 77>>, <<77, 154>>, <<154, 154>>, <<117, 156>>, <<183, 244>>,
   <<49, 245>>, <<98, 245>>, <<147, 245>>, <<196, 245>>}

\* int(d * scale) for a cropped shape of h rows and w columns.
ScaledSize(d, h, w) ==
  LET m == Max2(h, w)
  IN ((target_size * d) \div m) - (IF <<d, m>> \in FloatShort THEN 1 ELSE 0)

\* The length shared by source cell i (of n) and output cell j (of m), on the
\* common grid that splits the axis into n * m units.
Overlap(i, n, j, m) == Max2(0, Min2((i + 1) * m, (j + 1) * n) - Max2(i * m, j * n))

\* The source cells that output cell j (of m) lies over.
SourceRange(j, n, m) == ((j * n) \div m) .. ((((j + 1) * n) - 1) \div m)

\* captcha.py:58,61: Image.resize of the 0/255 image, modelled by the area each
\* output sample averages: the 8-bit sample at <<y, x>> is the mean of the
\* source samples lying under the output cell, rounded to the nearest integer.
Sample8(src, y, x, new_h, new_w) ==
  LET under == (SourceRange(y, src.h, new_h) \X SourceRange(x, src.w, new_w)) \cap src.on
      cover == SumTerms({<<p[1], p[2],
                           Overlap(p[1], src.h, y, new_h) * Overlap(p[2], src.w, x, new_w)>> :
                         p \in under})
      area == src.h * src.w
  IN ((2 * FullScale * cover) + area) \div (2 * area)

\* captcha.py:61,65: np.array(img.resize((new_w, new_h))) > 128
Resized(src, new_h, new_w) ==
  {p \in Cells(new_h, new_w) : Sample8(src, p[1], p[2], new_h, new_w) > BinarizeAbove}

\* captcha.py:49-66.  The outcome is [kind, arr]: kind "array" with the 40x40
\* canvas, "None" (no foreground), or "ValueError" (PIL refuses a resize to a
\* width or height below 1).
_normalize_char(char_arr) ==
  IF char_arr.on = {} THEN [kind |-> "None", arr |-> Arr(0, 0, {})]
  ELSE
    LET rmin == MinOf({p[1] : p \in char_arr.on})
        rmax == MaxOf({p[1] : p \in char_arr.on})
        cmin == MinOf({p[2] : p \in char_arr.on})
        cmax == MaxOf({p[2] : p \in char_arr.on})
        h == (rmax - rmin) + 1
        w == (cmax - cmin) + 1
        cropped == Arr(h, w, {<<p[1] - rmin, p[2] - cmin>> : p \in char_arr.on})
        new_h == ScaledSize(h, h, w)
        new_w == ScaledSize(w, h, w)
        y_offset == (target_size - new_h) \div 2
        x_offset == (target_size - new_w) \div 2
    IN IF new_h < 1 \/ new_w < 1
       THEN [kind |-> "ValueError", arr |-> Arr(0, 0, {})]
       ELSE [kind |-> "array",
             arr |-> Arr(target_size, target_size,
                         {<<p[1] + y_offset, p[2] + x_offset>> : p \in Resized(cropped, new_h, new_w)})]

\* -------------------------------------------------------- recognize_char
\* A score is the fraction <<numerator, denominator>>, denominator > 0.  The
\* counts are at most 1600, so two different fractions differ by far more than
\* a double's rounding error and the code's comparison of doubles is the
\* comparison of the fractions.
Greater(a, b) == a[1] * b[2] > b[1] * a[2]

SameScore(a, b) == a[1] * b[2] = b[1] * a[2]

\* numpy broadcasting of a 2-d template against the 40x40 glyph: every axis
\* must have length 40 or 1.
Broadcastable(t) == t.h \in {1, target_size} /\ t.w \in {1, target_size}

Broadcast(t) ==
  {p \in Cells(target_size, target_size) :
     <<IF t.h = 1 THEN 0 ELSE p[1], IF t.w = 1 THEN 0 ELSE p[2]>> \in t.on}

\* The score divided by the glyph's own pixel count instead of the union's.
ScoreOverGlyph(normalized, template) ==
  LET intersection == Cardinality(normalized.on \cap Broadcast(template))
      union == Cardinality(normalized.on)
  IN IF union > 0 THEN <<intersection, union>> ELSE <<0, 1>>

\* The union-zero guard answering 1 instead of 0.
ScoreGuardOne(normalized, template) ==
  LET intersection == Cardinality(normalized.on \cap Broadcast(template))
      union == Cardinality(normalized.on \cup Broadcast(template))
  IN IF union > 0 THEN <<intersection, union>> ELSE <<1, 1>>

\* captcha.py:74-76
Score(normalized, template) ==
  LET intersection == Cardinality(normalized.on \cap Broadcast(template))
      union == Cardinality(normalized.on \cup Broadcast(template))
  IN IF union > 0 THEN <<intersection, union>> ELSE <<0, 1>>

\* The comparison of captcha.py:77 as >=: a later equal score replaces the best.
ImprovesOrTies(score, max_score) == ~Greater(max_score, score)

\* captcha.py:77
Improves(score, max_score) == Greater(score, max_score)

RECURSIVE Pairs(_)
\* captcha.py:72-73: the (char, template) pairs in the order the two loops
\* visit them; db is the sequence of the mapping's items.
Pairs(db) ==
  IF db = <<>> THEN <<>>
  ELSE [i \in 1 .. Len(Head(db).templates) |->
          [char |-> Head(db).char, template |-> Head(db).templates[i]]] \o Pairs(Tail(db))

RECURSIVE Classify(_, _, _, _)
\* captcha.py:72-78 from pair i on, with the running best in acc.
Classify(normalized, pairs, i, acc) ==
  IF i > Len(pairs) THEN acc
  ELSE IF ~Broadcastable(pairs[i].template) THEN [acc EXCEPT !.raised = "ValueError"]
  ELSE LET score == Score(normalized, pairs[i].template)
       IN Classify(normalized, pairs, i + 1,
                   IF Improves(score, acc.max_score)
                   THEN [acc EXCEPT !.best_char = pairs[i].char, !.max_score = score]
                   ELSE acc)

\* The running maximum started at 0 instead of -1.
NoBestFromZero == [best_char |-> "?", max_score |-> <<0, 1>>, raised |-> "none"]

\* captcha.py:71
NoBest == [best_char |-> "?", max_score |-> <<-1, 1>>, raised |-> "none"]

\* captcha.py:68-79.  The outcome records what the call returned or raised and
\* the locals it ended with.
recognize_char(db, char_arr) ==
  LET n == _normalize_char(char_arr)
  IN IF n.kind = "ValueError"
     THEN [raised |-> "ValueError", char |-> "", normalized |-> n, max_score |-> <<-1, 1>>]
     ELSE IF n.kind = "None"
     THEN [raised |-> "none", char |-> "?", normalized |-> n, max_score |-> <<-1, 1>>]
     ELSE LET best == Classify(n.arr, Pairs(db), 1, NoBest)
          IN [raised |-> best.raised,
              char |-> IF best.raised = "none" THEN best.best_char ELSE "",
              normalized |-> n, max_score |-> best.max_score]

\* ----------------------------------------------------------- the inputs
\* Bounds of the image family: raw ink blocks of up to MaxBlockH rows and
\* MaxBlockW columns.
MaxBlockH == 7
MaxBlockW == 4

Paper == <<255, 255, 255>>
Ink == <<220, 40, 40>>

\* A rectangle of ink: rows r0..r0+h-1, columns c0..c0+w-1.
Rect(r0, c0, h, w) == [r0 |-> r0, c0 |-> c0, h |-> h, w |-> w]

InRect(p, b) == p[1] >= b.r0 /\ p[1] < b.r0 + b.h /\ p[2] >= b.c0 /\ p[2] < b.c0 + b.w

\* The decoded RGB image of h rows and w columns showing the ink rectangles.
Image(h, w, rects) ==
  [h |-> h, w |-> w,
   px |-> [p \in Cells(h, w) |-> IF \E b \in rects : InRect(p, b) THEN Ink ELSE Paper]]

\* One block of every size up to the bounds, from 4 rows and 1 column on.
OneBlockImages ==
  {Image(MaxBlockH + 2, MaxBlockW + 2, {Rect(1, 1, bh, bw)}) :
     bh \in 4 .. MaxBlockH, bw \in 1 .. MaxBlockW}

BlockKinds == {<<6, 3>>, <<MaxBlockH, MaxBlockW>>, <<4, 3>>}

\* Two blocks side by side; the one that starts higher is met first by the
\* row-major scan.
TwoBlockImages ==
  {Image(MaxBlockH + 3, (2 * MaxBlockW) + 4,
         {Rect(t[1], 1, l[1], l[2]), Rect(t[2], MaxBlockW + 3, r[1], r[2])}) :
     l \in BlockKinds, r \in BlockKinds, t \in {<<1, 2>>, <<2, 1>>}}

\* Two blocks that start in the same column, one above the other.
StackedImage == Image(17, 5, {Rect(1, 1, 6, 3), Rect(10, 1, 6, 3)})

\* A 2-row blob at columns 0-9 (after the filter) and a 10-row blob at columns 20-39.
NoiseAndBlobImage == Image(12, 40, {Rect(4, 0, 2, 11), Rect(1, 20, 10, 20)})

BlankImage == Image(4, 4, {})

\* Single pixels of ink, which the median filter removes.
SpeckImage == Image(6, 6, {Rect(1, 1, 1, 1), Rect(4, 3, 1, 1)})

\* A block 121 rows high and 3 columns wide: int(3 * 40/121) = 0.
TallImage == Image(121, 3, {Rect(0, 0, 121, 3)})

\* The 121x3 block with an ordinary 6x3 block to its right.
TallThenBlockImage == Image(121, 9, {Rect(0, 0, 121, 3), Rect(1, 5, 6, 3)})

\* A stroke two pixels wide that drifts over 6 columns in 130 rows: scaled to
\* 40 x 1, every sample averages about a third ink, well below the threshold.
SlantImage ==
  Image(130, 6, {Rect(0, 0, 26, 2), Rect(26, 1, 26, 2), Rect(52, 2, 26, 2),
                 Rect(78, 3, 26, 2), Rect(104, 4, 26, 2)})

\* Colours at the thresholds of captcha.py:31: the first is foreground, the
\* others miss it by one in red, green and blue.
Shades == {<<101, 139, 139>>, <<100, 139, 139>>, <<101, 140, 139>>, <<101, 139, 140>>}

\* An image whose ink has the colour shade.
Tinted(i, shade) ==
  [h |-> i.h, w |-> i.w, px |-> [p \in Cells(i.h, i.w) |-> IF i.px[p] = Ink THEN shade ELSE Paper]]

\* A 6x3 block and a speck in each of the shades.
ShadeImages == {Tinted(Image(8, 7, {Rect(1, 1, 6, 3), Rect(1, 5, 1, 1)}), s) : s \in Shades}

Images ==
  OneBlockImages \cup TwoBlockImages \cup ShadeImages
    \cup {StackedImage, NoiseAndBlobImage, BlankImage, SpeckImage, TallImage, SlantImage,
          TallThenBlockImage}

\* A template as the offline builder makes it: the normalized glyph of the one
\* character found in a sample image.
TemplateOf(img) == _normalize_char(_extract_characters(_extract_red_mask(img))[1]).arr

T63 == TemplateOf(Image(8, 5, {Rect(1, 1, 6, 3)}))

T74 == TemplateOf(Image(9, 6, {Rect(1, 1, 7, 4)}))

TWide == TemplateOf(Image(12, 22, {Rect(1, 1, 10, 20)}))

\* An all-false 40x40 template.
TZero == Arr(target_size, target_size, {})

\* Bitmaps that are not 40x40: one numpy cannot broadcast, one it can.
TBad == Arr(3, 3, {<<1, 1>>})

TOne == Arr(1, 1, {<<0, 0>>})

Entry(char, templates) == [char |-> char, templates |-> templates]

\* The databases a load can produce (pickle.load checks nothing): the items of
\* db.templates in the mapping's order.
Databases ==
  {<<>>,
   <<Entry("A", <<T63>>), Entry("B", <<T74>>)>>,
   <<Entry("B", <<T74, TWide>>), Entry("A", <<T63>>)>>,
   <<Entry("A", <<T63>>), Entry("B", <<T63>>)>>,
   <<Entry("A", <<>>), Entry("B", <<TZero>>), Entry("C", <<T63>>)>>,
   <<Entry("A", <<TZero>>)>>,
   <<Entry("A", <<>>)>>,
   <<Entry("A", <<T63>>), Entry("B", <<TBad>>)>>,
   <<Entry("A", <<TOne>>), Entry("B", <<T74>>)>>}

\* ------------------------------------------------------ the state machine
VARIABLES
  db,      \* self.db.templates, the loaded template database
  pc,      \* where recognize is: "idle", "loop", "returned", "raised"
  img,     \* the decoded image of the current call
  mask,    \* the mask _extract_red_mask returned
  labels,  \* the regions nd.label found in mask, in label order
  valid_chars, \* _extract_characters' sorted list of (start column, array)
  chars,   \* the list _extract_characters returned
  k,       \* the position in chars of the next recognize_char call
  result,  \* the characters joined so far, one entry per call
  last     \* the outcome of the latest recognize_char call

\* The variables of one recognize call and its recognizer.
recognizerVars == <<db, pc, img, mask, labels, valid_chars, chars, k, result, last>>

VARIABLES
  store,       \* the file captcha/model.pkl: Absent or File(mapping)
  _recognizer, \* the module global: None, or the index in instances of the recognizer it refers to
  instances,   \* the template databases of the CaptchaRecognizer objects constructed so far
  tpc,         \* where each thread is in solve_text_from_image
  loaded,      \* the recognizer load_recognizer returned to each thread: None or an index in instances
  got,         \* what get_recognizer last returned to each thread
  calls        \* how many solve_text_from_image calls each thread has made

loaderVars == <<store, _recognizer, instances, tpc, loaded, got, calls>>

VARIABLES
  t_pc,     \* where each thread's recognize call is: "idle", "loop", "returned", "raised"
  t_img,    \* the image of each thread's call
  t_chars,  \* each thread's local chars
  t_k,      \* the position in chars of each thread's next recognize_char call
  t_result  \* each thread's local result, and the string its caller holds after the return

threadVars == <<t_pc, t_img, t_chars, t_k, t_result>>

VARIABLES
  file,          \* the text of the downloaded file at fpath
  env_markers,   \* the value of STOOQ_VERIFICATION_MARKERS ("" when unset)
  v_pc,          \* where the verification of the file is: "open", "read", "done"
  lines,         \* f.readlines()
  content,       \* "".join(lines)
  row_count,
  row_failed,
  unauthorized_detected,
  found_markers

verifyVars ==
  <<file, env_markers, v_pc, lines, content, row_count, row_failed, unauthorized_detected,
    found_markers>>

VARIABLES
  page,            \* res.text of https://stooq.com/db/, as its rows
  now,             \* datetime.datetime.now(): [year, month]
  l_pc,            \* where get_latest_download_link is
  rows,
  ref_date,
  target_date_str, \* <<>> for None
  target_links,
  returned         \* what the call returned: [kind, links]

linkVars == <<page, now, l_pc, rows, ref_date, target_date_str, target_links, returned>>

\* session_manager.py: the cookies the browser context holds, those
\* context.cookies() gave and those that passed
\* the filter, session.cookies, the file at cookie_path, the server's answer
\* to the GET of load_session, the function running and where it is, the
\* index of its loop, the session.cookies.set calls it made, the GETs it
\* sent, what it returned, and the calls made so far.
VARIABLES
  context,
  cookies,
  stooq_cookies,
  session_cookies,
  cookie_file,
  res,
  s_op,
  s_pc,
  s_i,
  set_calls,
  gets,
  s_returned,
  s_calls

sessionVars ==
  <<context, cookies, stooq_cookies, session_cookies, cookie_file, res, s_op, s_pc, s_i, set_calls, gets,
    s_returned, s_calls>>

\* main.py run: the arguments, the date of datetime.now(), the names of the
\* files in data_dir, where run is, its locals, what it reported through sr
\* and what it returned; and, kept for the claims, the downloads attempted
\* (row and name) and the names this run saved into data_dir; the browser of
\* main.py:114 (its state "none" before the launch, then "open", then "closed",
\* and the browser.close() calls made), and
\* the calls run made on it and on the session, in order, each with what it
\* came to; and the values get_latest_download_link returned to it.
VARIABLES
  args,
  clock,
  data_dir,
  r_pc,
  target_date_clean,
  candidate_rows,
  row_idx,
  link_idx,
  downloaded_files,
  r_row_failed,
  r_unauthorized_detected,
  success_row_index,
  final_files,
  report,
  run_returned,
  attempted,
  written,
  browser,
  trace,
  scans

runVars ==
  <<args, clock, data_dir, r_pc, target_date_clean, candidate_rows, row_idx, link_idx,
    downloaded_files, r_row_failed, r_unauthorized_detected, success_row_index, final_files, report,
    run_returned, attempted, written, browser, trace, scans>>

\* captcha.py solve_stooq_captcha: max_retries, where the call is, its locals
\* (downloads holds the download events the listener appended, each named by
\* its attempt and its place; resp is the response the latest expect_response
\* was bound to, named by its attempt and click, with whether it arrived),
\* whether the listener is on the page, the image in tmp/current_captcha.png
\* (the attempt and click of the response it came from, <<>> when the file is
\* absent or empty), and what the call returned; and, kept for the claims,
\* the answers typed into #f15 and those sent with Enter (each with its
\* attempt and the image it was computed from), the downloads cancelled, the
\* attempts whose click step ended with a download captured, and those of
\* which the listener captured a download at all.
VARIABLES
  max_retries,
  c_pc,
  c_attempt,
  downloads,
  listener_added,
  click_attempt,
  click_success,
  resp,
  temp_captcha,
  solution,
  captcha_solved,
  c_returned,
  filled,
  submitted,
  cancelled,
  authorized_at_click,
  seen

captchaVars ==
  <<max_retries, c_pc, c_attempt, downloads, listener_added, click_attempt, click_success, resp,
    temp_captcha, solution, captcha_solved, c_returned, filled, submitted, cancelled,
    authorized_at_click, seen>>

vars ==
  <<recognizerVars, loaderVars, threadVars, verifyVars, linkVars, sessionVars, runVars, captchaVars>>

\* What the steps of each workflow leave alone.
notRecognizer == <<loaderVars, threadVars, verifyVars, linkVars, sessionVars, runVars,
    captchaVars>>

notLoader == <<recognizerVars, threadVars, verifyVars, linkVars, sessionVars, runVars,
    captchaVars>>

notThreads == <<recognizerVars, loaderVars, verifyVars, linkVars, sessionVars, runVars,
    captchaVars>>

notVerify == <<recognizerVars, loaderVars, threadVars, linkVars, sessionVars, runVars,
    captchaVars>>

notLinks == <<recognizerVars, loaderVars, threadVars, verifyVars, sessionVars, runVars,
    captchaVars>>

notSession == <<recognizerVars, loaderVars, threadVars, verifyVars, linkVars, runVars,
    captchaVars>>

notRun == <<recognizerVars, loaderVars, threadVars, verifyVars, linkVars, sessionVars,
    captchaVars>>

notCaptcha ==
  <<recognizerVars, loaderVars, threadVars, verifyVars, linkVars, sessionVars, runVars>>

NoImage == [h |-> 0, w |-> 0, px |-> <<>>]

NoCall == [raised |-> "none", char |-> "", normalized |-> [kind |-> "none", arr |-> Arr(0, 0, {})],
           max_score |-> <<-1, 1>>]

\* No recognize call is in progress.
NoRecognizeCall ==
  /\ pc = "idle"
  /\ img = NoImage
  /\ mask = Arr(0, 0, {})
  /\ labels = <<>>
  /\ valid_chars = <<>>
  /\ chars = <<>>
  /\ k = 0
  /\ result = <<>>
  /\ last = NoCall

Threads == {1, 2}

None == 0

\* The file at captcha/model.pkl: whether it exists and what its bytes unpickle to.
File(mapping) == [exists |-> TRUE, mapping |-> mapping]

Absent == [exists |-> FALSE, mapping |-> <<>>]

\* captcha.py:90: the module as imported, no thread in solve_text_from_image.
NoLoaderCall ==
  /\ _recognizer = None
  /\ instances = <<>>
  /\ tpc = [t \in Threads |-> "idle"]
  /\ loaded = [t \in Threads |-> None]
  /\ got = [t \in Threads |-> None]
  /\ calls = [t \in Threads |-> 0]

\* No thread is in a recognize call.
NoThreadCall ==
  /\ t_pc = [t \in Threads |-> "idle"]
  /\ t_img = [t \in Threads |-> NoImage]
  /\ t_chars = [t \in Threads |-> <<>>]
  /\ t_k = [t \in Threads |-> 0]
  /\ t_result = [t \in Threads |-> <<>>]

\* No downloaded file is being verified.
NoVerification ==
  /\ file = <<>>
  /\ env_markers = <<>>
  /\ v_pc = "open"
  /\ lines = <<>>
  /\ content = <<>>
  /\ row_count = 0
  /\ row_failed = FALSE
  /\ unauthorized_detected = FALSE
  /\ found_markers = <<>>

NotReturned == [kind |-> "none", links |-> <<>>]

\* get_latest_download_link has not been called.
NoLinkSearch ==
  /\ page = <<>>
  /\ now = [year |-> 0, month |-> 0]
  /\ l_pc = "start"
  /\ rows = <<>>
  /\ ref_date = [y |-> 0, m |-> 0, d |-> 0]
  /\ target_date_str = <<>>
  /\ target_links = <<>>
  /\ returned = NotReturned

\* An absent cookie file; NoResponse before any GET.
NoCookieFile == [exists |-> FALSE, ok |-> FALSE, jar |-> {}]

NoResponse == [status_code |-> 0, text |-> <<>>]

NoSessionCall ==
  /\ context = <<>>
  /\ cookies = <<>>
  /\ stooq_cookies = <<>>
  /\ session_cookies = {}
  /\ cookie_file = NoCookieFile
  /\ res = NoResponse
  /\ s_op = "none"
  /\ s_pc = "idle"
  /\ s_i = 0
  /\ set_calls = <<>>
  /\ gets = 0
  /\ s_returned = "none"
  /\ s_calls = 0

\* Nothing reported through sr yet; the value of get_latest_download_link
\* before it is called.
NoReport == [kind |-> "none", message |-> "", files |-> <<>>]

NoRows == [shape |-> "None", rows |-> <<>>]

NoRun ==
  /\ args = [date |-> [y |-> 0, m |-> 0, d |-> 0], force |-> FALSE]
  /\ clock = [y |-> 0, m |-> 0, d |-> 0]
  /\ data_dir = {}
  /\ r_pc = "start"
  /\ target_date_clean = <<>>
  /\ candidate_rows = NoRows
  /\ row_idx = 0
  /\ link_idx = 0
  /\ downloaded_files = <<>>
  /\ r_row_failed = FALSE
  /\ r_unauthorized_detected = FALSE
  /\ success_row_index = -1
  /\ final_files = <<>>
  /\ report = NoReport
  /\ run_returned = "none"
  /\ attempted = <<>>
  /\ written = {}
  /\ browser = [state |-> "none", closes |-> 0]
  /\ trace = <<>>
  /\ scans = <<>>

\* The name 'resp' before any expect_response; no answer computed yet.
NoResp == [attempt |-> -1, click |-> -1, received |-> FALSE]

\* solve_stooq_captcha has not been called.
NoCaptchaCall ==
  /\ max_retries = 0
  /\ c_pc = "start"
  /\ c_attempt = 0
  /\ downloads = <<>>
  /\ listener_added = FALSE
  /\ click_attempt = 0
  /\ click_success = FALSE
  /\ resp = NoResp
  /\ temp_captcha = <<>>
  /\ solution = <<>>
  /\ captcha_solved = FALSE
  /\ c_returned = "none"
  /\ filled = <<>>
  /\ submitted = <<>>
  /\ cancelled = <<>>
  /\ authorized_at_click = {}
  /\ seen = {}

Init ==
  /\ db \in Databases
  /\ NoRecognizeCall
  /\ store = Absent
  /\ NoLoaderCall
  /\ NoThreadCall
  /\ NoVerification
  /\ NoLinkSearch
  /\ NoSessionCall
  /\ NoRun
  /\ NoCaptchaCall

\* captcha.py:82-85: recognize up to the loop over the characters.
Recognize ==
  /\ pc = "idle"
  /\ \E i \in Images :
       /\ img' = i
       /\ mask' = _extract_red_mask(i)
  /\ labels' = label(mask'.on)
  /\ valid_chars' = sorted_valid_chars(mask')
  /\ chars' = CharsOf(valid_chars')
  /\ k' = 1
  /\ result' = <<>>
  /\ last' = NoCall
  /\ pc' = "loop"
  /\ UNCHANGED db
  /\ UNCHANGED notRecognizer

\* The pass of the loop with the winner's list looked up by self.db.templates[best_char]:
\* the defaultdict stores an empty list under a label it does not hold yet.
RecognizeCharIndexing ==
  /\ pc = "loop"
  /\ k <= Len(chars)
  /\ last' = recognize_char(db, chars[k])
  /\ IF last'.raised = "none"
     THEN /\ result' = Append(result, last'.char)
          /\ k' = k + 1
          /\ pc' = "loop"
          /\ db' = IF \E i \in 1 .. Len(db) : db[i].char = last'.char
                   THEN db
                   ELSE Append(db, [char |-> last'.char, templates |-> <<>>])
     ELSE /\ pc' = "raised"
          /\ UNCHANGED <<result, k, db>>
  /\ UNCHANGED <<img, mask, labels, valid_chars, chars>>
  /\ UNCHANGED notRecognizer

\* captcha.py:86-87: one pass of the loop, result += recognize_char(char_arr);
\* an exception leaves recognize.
RecognizeChar ==
  /\ pc = "loop"
  /\ k <= Len(chars)
  /\ last' = recognize_char(db, chars[k])
  /\ IF last'.raised = "none"
     THEN /\ result' = Append(result, last'.char)
          /\ k' = k + 1
          /\ pc' = "loop"
     ELSE /\ pc' = "raised"
          /\ UNCHANGED <<result, k>>
  /\ UNCHANGED <<db, img, mask, labels, valid_chars, chars>>
  /\ UNCHANGED notRecognizer

\* captcha.py:88
Return ==
  /\ pc = "loop"
  /\ k > Len(chars)
  /\ pc' = "returned"
  /\ UNCHANGED <<db, img, mask, labels, valid_chars, chars, k, result, last>>
  /\ UNCHANGED notRecognizer

\* The caller (captcha.py:171) has the string or the exception; the call's
\* locals are gone and the recognizer waits for the next image.
NextCall ==
  /\ pc \in {"returned", "raised"}
  /\ pc' = "idle"
  /\ img' = NoImage
  /\ mask' = Arr(0, 0, {})
  /\ labels' = <<>>
  /\ valid_chars' = <<>>
  /\ chars' = <<>>
  /\ k' = 0
  /\ result' = <<>>
  /\ last' = NoCall
  /\ UNCHANGED db
  /\ UNCHANGED notRecognizer

Next == Recognize \/ RecognizeChar \/ Return \/ NextCall

Spec == Init /\ [][Next]_vars

\* ------------------------------------------------- the lazy initializer
\* Bound: the solve_text_from_image calls each thread makes.
MaxCalls == 2

\* What captcha/model.pkl can unpickle to (pickle.load checks nothing).
Stores ==
  {<<Entry("A", <<T63>>), Entry("B", <<T74>>)>>,
   <<Entry("A", <<T63>>), Entry("B", <<TBad>>)>>,
   <<Entry("A", <<TOne>>)>>}

InitLoader ==
  /\ db = <<>>
  /\ NoRecognizeCall
  /\ store \in {Absent} \cup {File(mapping) : mapping \in Stores}
  /\ NoLoaderCall
  /\ NoThreadCall
  /\ NoVerification
  /\ NoLinkSearch
  /\ NoSessionCall
  /\ NoRun
  /\ NoCaptchaCall

\* captcha.py:108-109: a thread calls solve_text_from_image, which enters
\* get_recognizer.
solve_text_from_image(t) ==
  /\ tpc[t] = "idle"
  /\ calls[t] < MaxCalls
  /\ calls' = [calls EXCEPT ![t] = @ + 1]
  /\ tpc' = [tpc EXCEPT ![t] = "test"]
  /\ UNCHANGED <<store, _recognizer, instances, loaded, got>>
  /\ UNCHANGED notLoader

\* captcha.py:104: if _recognizer is None
get_recognizer_test(t) ==
  /\ tpc[t] = "test"
  /\ tpc' = [tpc EXCEPT ![t] = IF _recognizer = None THEN "exists" ELSE "return"]
  /\ UNCHANGED <<store, _recognizer, instances, loaded, got, calls>>
  /\ UNCHANGED notLoader

\* The missing file answered by a recognizer over an empty CaptchaTemplateDB
\* instead of the exception.
load_recognizer_exists_or_empty(t) ==
  /\ tpc[t] = "exists"
  /\ IF ~store.exists
     THEN /\ instances' = Append(instances, <<>>)
          /\ loaded' = [loaded EXCEPT ![t] = Len(instances) + 1]
          /\ tpc' = [tpc EXCEPT ![t] = "assign"]
     ELSE /\ tpc' = [tpc EXCEPT ![t] = "load"]
          /\ UNCHANGED <<instances, loaded>>
  /\ UNCHANGED <<store, _recognizer, got, calls>>
  /\ UNCHANGED notLoader

\* captcha.py:96-97: os.path.exists(template_file), FileNotFoundError if not;
\* the exception leaves load_recognizer, get_recognizer and the call.
load_recognizer_exists(t) ==
  /\ tpc[t] = "exists"
  /\ tpc' = [tpc EXCEPT ![t] = IF ~store.exists THEN "raised" ELSE "load"]
  /\ UNCHANGED <<store, _recognizer, instances, loaded, got, calls>>
  /\ UNCHANGED notLoader

\* captcha.py:98-100: pickle.load and CaptchaRecognizer(template_db), a new
\* object at every execution.
load_recognizer_load(t) ==
  /\ tpc[t] = "load"
  /\ instances' = Append(instances, store.mapping)
  /\ loaded' = [loaded EXCEPT ![t] = Len(instances) + 1]
  /\ tpc' = [tpc EXCEPT ![t] = "assign"]
  /\ UNCHANGED <<store, _recognizer, got, calls>>
  /\ UNCHANGED notLoader

\* captcha.py:105: _recognizer = <the value load_recognizer returned>
get_recognizer_assign(t) ==
  /\ tpc[t] = "assign"
  /\ _recognizer' = loaded[t]
  /\ tpc' = [tpc EXCEPT ![t] = "return"]
  /\ UNCHANGED <<store, instances, loaded, got, calls>>
  /\ UNCHANGED notLoader

\* captcha.py:106: return _recognizer, the global as it is now.
get_recognizer_return(t) ==
  /\ tpc[t] = "return"
  /\ got' = [got EXCEPT ![t] = _recognizer]
  /\ loaded' = [loaded EXCEPT ![t] = None]
  /\ tpc' = [tpc EXCEPT ![t] = "recognize"]
  /\ UNCHANGED <<store, _recognizer, instances, calls>>
  /\ UNCHANGED notLoader

\* captcha.py:109: .recognize(image_path) on the recognizer got, to its end.
recognize_with(t) ==
  /\ tpc[t] = "recognize"
  /\ tpc' = [tpc EXCEPT ![t] = "idle"]
  /\ UNCHANGED <<store, _recognizer, instances, loaded, got, calls>>
  /\ UNCHANGED notLoader

\* The FileNotFoundError reaches the caller of solve_text_from_image
\* (captcha.py:171), which may call again.
load_error_surfaced(t) ==
  /\ tpc[t] = "raised"
  /\ tpc' = [tpc EXCEPT ![t] = "idle"]
  /\ UNCHANGED <<store, _recognizer, instances, loaded, got, calls>>
  /\ UNCHANGED notLoader

NextLoader ==
  \E t \in Threads :
    \/ solve_text_from_image(t)
    \/ get_recognizer_test(t)
    \/ load_recognizer_exists(t)
    \/ load_recognizer_load(t)
    \/ get_recognizer_assign(t)
    \/ get_recognizer_return(t)
    \/ recognize_with(t)
    \/ load_error_surfaced(t)

SpecLoader == InitLoader /\ [][NextLoader]_vars

\* ------------------------------------------- recognize on several threads
\* The images the threads recognize: no character, one, two, and the 121x3
\* block.
ThreadImages ==
  {BlankImage,
   Image(MaxBlockH + 2, MaxBlockW + 2, {Rect(1, 1, 6, 3)}),
   Image(MaxBlockH + 3, (2 * MaxBlockW) + 4, {Rect(2, 1, 6, 3), Rect(1, MaxBlockW + 3, MaxBlockH, MaxBlockW)}),
   TallImage}

ThreadDatabases ==
  {<<Entry("A", <<T63>>), Entry("B", <<T74>>)>>,
   <<Entry("A", <<>>)>>}

InitThreads ==
  /\ db \in ThreadDatabases
  /\ NoRecognizeCall
  /\ store = Absent
  /\ NoLoaderCall
  /\ NoThreadCall
  /\ NoVerification
  /\ NoLinkSearch
  /\ NoSessionCall
  /\ NoRun
  /\ NoCaptchaCall

\* The accumulator left as the previous call on the thread ended.
result_left_over(t) == t_result[t]

\* captcha.py:85, result = ""
result_at_start(t) == <<>>

\* captcha.py:82-85 on thread t: a new call, whatever the thread's previous
\* call returned or raised.
recognize_start(t) ==
  /\ t_pc[t] \in {"idle", "returned", "raised"}
  /\ \E i \in ThreadImages :
       /\ t_img' = [t_img EXCEPT ![t] = i]
       /\ t_chars' = [t_chars EXCEPT ![t] = _extract_characters(_extract_red_mask(i))]
  /\ t_k' = [t_k EXCEPT ![t] = 1]
  /\ t_result' = [t_result EXCEPT ![t] = result_at_start(t)]
  /\ t_pc' = [t_pc EXCEPT ![t] = "loop"]
  /\ UNCHANGED notThreads

\* captcha.py:86-87 on thread t.
recognize_pass(t) ==
  /\ t_pc[t] = "loop"
  /\ t_k[t] <= Len(t_chars[t])
  /\ LET c == recognize_char(db, t_chars[t][t_k[t]])
     IN IF c.raised = "none"
        THEN /\ t_result' = [t_result EXCEPT ![t] = Append(@, c.char)]
             /\ t_k' = [t_k EXCEPT ![t] = @ + 1]
             /\ UNCHANGED t_pc
        ELSE /\ t_pc' = [t_pc EXCEPT ![t] = "raised"]
             /\ UNCHANGED <<t_result, t_k>>
  /\ UNCHANGED <<t_img, t_chars>>
  /\ UNCHANGED notThreads

\* captcha.py:88 on thread t.
recognize_return(t) ==
  /\ t_pc[t] = "loop"
  /\ t_k[t] > Len(t_chars[t])
  /\ t_pc' = [t_pc EXCEPT ![t] = "returned"]
  /\ UNCHANGED <<t_img, t_chars, t_k, t_result>>
  /\ UNCHANGED notThreads

NextThreads ==
  \E t \in Threads :
    \/ recognize_start(t)
    \/ recognize_pass(t)
    \/ recognize_return(t)

SpecThreads == InitThreads /\ [][NextThreads]_vars

\* --------------------------------------------- the download verification
\* A text is the sequence of its tokens: words, "," and " ", and NL for "\n".
NL == "\n"

\* main.py:217
MinRows == 5

\* main.py:212
Unauthorized == <<"Unauthorized">>

\* main.py:222
DefaultMarkers == <<<<"AAPL.US">>, <<"^SPX">>, <<"^DJI">>, <<"GLD.US">>>>

\* Python's word in text: word is a contiguous part of text.
Contains(text, word) ==
  \E i \in 1 .. (Len(text) - Len(word)) + 1 : SubSeq(text, i, (i + Len(word)) - 1) = word

RECURSIVE readlines(_)
\* main.py:206: the lines of the text, each with its "\n" if it has one.
readlines(text) ==
  IF text = <<>> THEN <<>>
  ELSE LET ends == {i \in 1 .. Len(text) : text[i] = NL}
           n == IF ends = {} THEN Len(text) ELSE MinOf(ends)
       IN <<SubSeq(text, 1, n)>> \o readlines(SubSeq(text, n + 1, Len(text)))

RECURSIVE join(_)
\* main.py:207
join(parts) == IF parts = <<>> THEN <<>> ELSE Head(parts) \o join(Tail(parts))

RECURSIVE split(_)
\* str.split(","): the pieces between the commas, at least one piece.
split(text) ==
  LET commas == {i \in 1 .. Len(text) : text[i] = ","}
  IN IF commas = {} THEN <<text>>
     ELSE <<SubSeq(text, 1, MinOf(commas) - 1)>> \o split(SubSeq(text, MinOf(commas) + 1, Len(text)))

\* str.strip() of a piece: the blanks at both ends removed.
strip(text) ==
  LET solid == {i \in 1 .. Len(text) : text[i] # " "}
  IN IF solid = {} THEN <<>> ELSE SubSeq(text, MinOf(solid), MaxOf(solid))

NotBlank(piece) == strip(piece) # <<>>

\* The data rows counted with the header line.
row_count_with_header(ls) == Len(ls)

\* main.py:208
row_count_of(ls) == Max2(0, Len(ls) - 1)

\* main.py:221-222
required_markers(value) ==
  IF value # <<>>
  THEN [i \in 1 .. Len(SelectSeq(split(value), NotBlank)) |-> strip(SelectSeq(split(value), NotBlank)[i])]
  ELSE DefaultMarkers

\* Bound: the lines of a downloaded file.
MaxLines == 7

Header == <<"Symbol", ",", "Close">>

Row(symbol) == <<symbol, ",", "100">>

\* A file of n lines: a header, rows of one symbol, and possibly one line of
\* another kind at position j; the last line with or without its "\n".
FileOf(n, symbol, other, j, newline_at_end) ==
  LET line(i) == IF i = j THEN other ELSE IF i = 1 THEN Header ELSE Row(symbol)
      text == join([i \in 1 .. n |-> line(i) \o <<NL>>])
  IN IF newline_at_end \/ n = 0 THEN text ELSE SubSeq(text, 1, Len(text) - 1)

Files ==
  {FileOf(n, symbol, other, j, newline_at_end) :
     n \in 0 .. MaxLines, symbol \in {"XYZ.UK", "AAPL.US"},
     other \in {<<"Unauthorized", " ", "access">>, Row("^SPX"), Row("TSLA.US"), <<>>},
     j \in {0, 1, MaxLines - 1}, newline_at_end \in BOOLEAN}

\* Values of STOOQ_VERIFICATION_MARKERS: unset, one marker, two with blanks,
\* and values that hold no marker at all.
EnvValues ==
  {<<>>, <<"TSLA.US">>, <<" ", "TSLA.US", ",", " ", "^SPX", " ">>, <<",">>, <<" ">>}

InitVerify ==
  /\ db = <<>>
  /\ NoRecognizeCall
  /\ store = Absent
  /\ NoLoaderCall
  /\ NoThreadCall
  /\ file \in Files
  /\ env_markers \in EnvValues
  /\ v_pc = "open"
  /\ lines = <<>>
  /\ content = <<>>
  /\ row_count = 0
  /\ row_failed = FALSE
  /\ unauthorized_detected = FALSE
  /\ found_markers = <<>>
  /\ NoLinkSearch
  /\ NoSessionCall
  /\ NoRun
  /\ NoCaptchaCall

\* main.py:205-208
verify_read ==
  /\ v_pc = "open"
  /\ lines' = readlines(file)
  /\ content' = join(lines')
  /\ row_count' = row_count_of(lines')
  /\ v_pc' = "read"
  /\ UNCHANGED <<file, env_markers, row_failed, unauthorized_detected, found_markers>>
  /\ UNCHANGED notVerify

\* main.py:212-216
verify_unauthorized ==
  /\ v_pc = "read"
  /\ Contains(content, Unauthorized)
  /\ unauthorized_detected' = TRUE
  /\ row_failed' = TRUE
  /\ v_pc' = "done"
  /\ UNCHANGED <<file, env_markers, lines, content, row_count, found_markers>>
  /\ UNCHANGED notVerify

\* main.py:217-219
verify_rows ==
  /\ v_pc = "read"
  /\ ~Contains(content, Unauthorized)
  /\ row_count < MinRows
  /\ row_failed' = TRUE
  /\ v_pc' = "done"
  /\ UNCHANGED <<file, env_markers, lines, content, row_count, unauthorized_detected, found_markers>>
  /\ UNCHANGED notVerify

\* main.py:220-233
verify_markers ==
  /\ v_pc = "read"
  /\ ~Contains(content, Unauthorized)
  /\ ~(row_count < MinRows)
  /\ LET required == required_markers(env_markers)
         found(m) == Contains(content, m)
     IN /\ found_markers' = SelectSeq(required, found)
        /\ row_failed' = (found_markers' = <<>>)
  /\ v_pc' = "done"
  /\ UNCHANGED <<file, env_markers, lines, content, row_count, unauthorized_detected>>
  /\ UNCHANGED notVerify

NextVerify == verify_read \/ verify_unauthorized \/ verify_rows \/ verify_markers

SpecVerify == InitVerify /\ [][NextVerify]_vars

\* ------------------------------------------------ get_latest_download_link
\* A date is [y, m, d]; NoDate stands for Python's None.
Date(y, m, d) == [y |-> y, m |-> m, d |-> d]

NoDate == Date(0, 0, 0)

IsLeap(y) == (y % 4 = 0 /\ y % 100 # 0) \/ y % 400 = 0

DaysIn(y, m) ==
  IF m = 2 THEN (IF IsLeap(y) THEN 29 ELSE 28)
  ELSE IF m \in {4, 6, 9, 11} THEN 30 ELSE 31

\* datetime.date(y, m, d) raises ValueError unless the day exists.
IsDate(y, m, d) == m \in 1 .. 12 /\ d >= 1 /\ d <= DaysIn(y, m)

\* The days from 1970-01-01 to the date, in the proleptic Gregorian calendar.
DayNumber(date) ==
  LET y == IF date.m <= 2 THEN date.y - 1 ELSE date.y
      era == y \div 400
      yoe == y - (era * 400)
      mp == (date.m + 9) % 12
      doy == (((153 * mp) + 2) \div 5) + (date.d - 1)
      doe == (((yoe * 365) + (yoe \div 4)) - (yoe \div 100)) + doy
  IN ((era * 146097) + doe) - 719468

\* date.weekday(): 0 = Monday ... 5 = Saturday, 6 = Sunday (1970-01-01 was a
\* Thursday).
weekday(date) == (DayNumber(date) + 3) % 7

\* date - timedelta(days=1)
DayBefore(date) ==
  IF date.d > 1 THEN Date(date.y, date.m, date.d - 1)
  ELSE IF date.m > 1 THEN Date(date.y, date.m - 1, DaysIn(date.y, date.m - 1))
  ELSE Date(date.y - 1, 12, 31)

\* A text is the sequence of its pieces; the text of a link is the sequence
\* of its characters.
Digit(n) == <<"0", "1", "2", "3", "4", "5", "6", "7", "8", "9">>[n + 1]

\* strftime("%m%d")
MMDD(date) ==
  <<Digit(date.m \div 10), Digit(date.m % 10), Digit(date.d \div 10), Digit(date.d % 10)>>

\* strftime("%Y"), for years 1000 to 9999
YYYY(y) ==
  <<Digit(y \div 1000), Digit((y \div 100) % 10), Digit((y \div 10) % 10), Digit(y % 10)>>

startswith(text, prefix) ==
  Len(text) >= Len(prefix) /\ SubSeq(text, 1, Len(prefix)) = prefix

endswith(text, suffix) ==
  Len(text) >= Len(suffix) /\ SubSeq(text, (Len(text) - Len(suffix)) + 1, Len(text)) = suffix

\* int(): the numerals the pages use; any other text raises ValueError (-1).
IntOf(word) ==
  CASE word = "1" -> 1 [] word = "16" -> 16 [] word = "17" -> 17 [] word = "18" -> 18
    [] word = "30" -> 30 [] word = "31" -> 31 [] OTHER -> -1

\* link_finder.py:36-41: parts[1][:3].title() looked up in months; 0 for
\* months.get giving None.
MonthOf(word) ==
  CASE word \in {"Jan", "jan", "January"} -> 1
    [] word \in {"Feb", "February"} -> 2
    [] word \in {"Nov", "November"} -> 11
    [] word \in {"Dec", "DEC", "December"} -> 12
    [] OTHER -> 0

\* re.split(r'[\s,]+', date_str) of a stripped text: the pieces that are
\* neither blanks nor commas.
IsWord(piece) == piece \notin {" ", ","}

DateParts(date_str) == SelectSeq(date_str, IsWord)

\* A page is the sequence of the pieces res.text.split('</tr>') gives.  A row
\* is [stamp, links]: the text of its time cell (<<>> when it has none) and
\* its anchors, each [href, text], in document order.
Link(href, text) == [href |-> href, text |-> text]

TableRow(stamp, links) == [stamp |-> stamp, links |-> links]

\* link_finder.py:27-28: "12:00" in row, and the element text ending in 12:00.
Has1200(row) == \E i \in 1 .. Len(row.stamp) : row.stamp[i] = "12:00"

DateMatch(row) == row.stamp # <<>> /\ row.stamp[Len(row.stamp)] = "12:00"

\* The row's date taken in the current year whatever the months.
RowDate_this_year(row, today) ==
  LET parts == DateParts(strip(row.stamp))
      day == IntOf(parts[1])
      month == MonthOf(parts[2])
  IN IF ~DateMatch(row) \/ Len(parts) < 2 THEN NoDate
     ELSE IF day < 0 \/ month = 0 \/ ~IsDate(today.year, month, day) THEN NoDate
     ELSE Date(today.year, month, day)

\* link_finder.py:30-48 for the row that holds "12:00": the reference date,
\* or NoDate when the text has fewer than two parts, the month is unknown, or
\* int() or datetime.date() raised.
RowDate(row, today) ==
  LET parts == DateParts(strip(row.stamp))
      day == IntOf(parts[1])
      month == MonthOf(parts[2])
      row_year == IF today.month = 1 /\ month = 12 THEN today.year - 1 ELSE today.year
  IN IF ~DateMatch(row) \/ Len(parts) < 2 THEN NoDate
     ELSE IF day < 0 \/ month = 0 \/ ~IsDate(row_year, month, day) THEN NoDate
     ELSE Date(row_year, month, day)

\* link_finder.py:26-50: only the first row that holds "12:00" is looked at.
reference_date(rs, today) ==
  LET hits == {i \in 1 .. Len(rs) : Has1200(rs[i])}
  IN IF hits = {} THEN NoDate ELSE RowDate(rs[MinOf(hits)], today)

\* The date left where it is.
adjusted_not(date) == date

\* link_finder.py:55-62
adjusted(date) ==
  IF weekday(date) = 5 THEN DayBefore(date)
  ELSE IF weekday(date) = 6 THEN DayBefore(DayBefore(date))
  ELSE date

\* link_finder.py:71-72: the anchors the pattern finds, those whose href
\* holds d= or t=.
QueryPieces == {"?t=d", "?t=h", "?t=5"}

row_links(row) ==
  LET found(l) == \E i \in 1 .. Len(l.href) : l.href[i] \in QueryPieces
  IN SelectSeq(row.links, found)

\* link_finder.py:75
required == <<<<"_", "d">>, <<"_", "h">>, <<"_", "5">>>>

\* link_finder.py:78-88: matches[suffix] after the loop, the last anchor of
\* the row that qualifies, or <<>> for None.  target is <<>> for no target.
Match(links, suffix, target) ==
  LET ok == {i \in 1 .. Len(links) :
               /\ endswith(links[i].text, suffix)
               /\ target # <<>> => startswith(links[i].text, target)}
  IN IF ok = {} THEN <<>> ELSE <<links[MaxOf(ok)]>>

\* href.lstrip('/')
lstrip(href) ==
  LET solid == {i \in 1 .. Len(href) : href[i] # "/"}
  IN IF solid = {} THEN <<>> ELSE SubSeq(href, MinOf(solid), Len(href))

\* The name left as the link's text.
final_name_as_text(yyyy_prefix, text) == text

\* link_finder.py:102
final_name(yyyy_prefix, text) == yyyy_prefix \o text \o <<".txt">>

\* link_finder.py:104-110
url_of(href) ==
  LET h == lstrip(href)
  IN IF h # <<>> /\ h[1] = "http://mirror/" THEN h
     ELSE IF \E i \in 1 .. Len(h) : h[i] = "db/" THEN <<"https://stooq.com/">> \o h
     ELSE <<"https://stooq.com/db/">> \o h

\* link_finder.py:90-111: the pairs of a row in which all three were found.
RowTargets(row, target, yyyy_prefix) ==
  [i \in 1 .. 3 |->
     LET l == Match(row_links(row), required[i], target)[1]
     IN <<url_of(l.href), final_name(yyyy_prefix, l.text)>>]

Complete(row, target) ==
  \A i \in 1 .. 3 : Match(row_links(row), required[i], target) # <<>>

\* link_finder.py:69-112: the pairs of the first complete row, <<>> if none.
select_links(rs, target, yyyy_prefix) ==
  LET full == {i \in 1 .. Len(rs) : Complete(rs[i], target)}
  IN IF full = {} THEN <<>> ELSE RowTargets(rs[MinOf(full)], target, yyyy_prefix)

\* Bound: the rows of a page.
MaxRows == 2

Stamp(day, month) == <<day, " ", month, ",", " ", "12:00">>

LinkText(mmdd, suffix) == mmdd \o suffix

\* The three links of one day as the page shows them.
FullLinks(mmdd) ==
  <<Link(<<"db/", "d/", "?t=d">>, LinkText(mmdd, <<"_", "d">>)),
    Link(<<"db/", "d/", "?t=h">>, LinkText(mmdd, <<"_", "h">>)),
    Link(<<"db/", "d/", "?t=5">>, LinkText(mmdd, <<"_", "5">>))>>

D0116 == <<"0", "1", "1", "6">>

D0117 == <<"0", "1", "1", "7">>

D0118 == <<"0", "1", "1", "8">>

D1231 == <<"1", "2", "3", "1">>

D1030 == <<"1", "0", "3", "0">>

\* The kinds of row: the rows of the two pages of tests/test_main.py (a bare
\* '12:00' with three links; no time and a _d link only), dated '12:00' rows
\* of a Friday, a Saturday and a Sunday of January 2026 and of 31 Dec, a time
\* cell that does not end in 12:00, a date that does not exist, hrefs of the
\* other forms, an anchor that is no data link, two _d links in one row, and
\* '12:00' rows of the first of a month that show the links of the Friday
\* before (1 Nov 2026 is a Sunday, 1 Jan 2028 a Saturday).
RowKinds ==
  {TableRow(<<>>, <<>>),
   TableRow(<<"12:00">>, FullLinks(D0116)),
   TableRow(<<>>, <<Link(<<"db/", "d/", "?t=d">>, LinkText(D0116, <<"_", "d">>))>>),
   TableRow(Stamp("16", "Jan"), FullLinks(D0116)),
   TableRow(Stamp("17", "January"), FullLinks(D0117)),
   TableRow(Stamp("18", "jan"), FullLinks(D0118)),
   TableRow(Stamp("31", "Dec"), FullLinks(D1231)),
   TableRow(<<"16", " ", "Jan", ",", " ", "12:00", " ", "CET">>, FullLinks(D0116)),
   TableRow(Stamp("30", "Feb"), FullLinks(D0117)),
   TableRow(Stamp("1", "Nov"), FullLinks(D1030)),
   TableRow(Stamp("1", "Jan"), FullLinks(D1231)),
   TableRow(<<>>,
            <<Link(<<"/", "db/", "d/", "?t=d">>, LinkText(D0116, <<"_", "d">>)),
              Link(<<"d/", "?t=h">>, LinkText(D0116, <<"_", "h">>)),
              Link(<<"http://mirror/", "?t=5">>, LinkText(D0116, <<"_", "5">>)),
              Link(<<"about.html">>, LinkText(D0117, <<"_", "d">>))>>),
   TableRow(<<>>,
            <<Link(<<"db/", "old/", "?t=d">>, LinkText(D0116, <<"_", "d">>))>> \o FullLinks(D0116))}

RECURSIVE PagesOf(_)
\* The pages of exactly n rows.
PagesOf(n) ==
  IF n = 0 THEN {<<>>}
  ELSE {Append(pg, row) : pg \in PagesOf(n - 1), row \in RowKinds}

Pages == UNION {PagesOf(n) : n \in 1 .. MaxRows}

Nows ==
  {[year |-> 2026, month |-> 1], [year |-> 2026, month |-> 11], [year |-> 2028, month |-> 1]}

InitLinks ==
  /\ db = <<>>
  /\ NoRecognizeCall
  /\ store = Absent
  /\ NoLoaderCall
  /\ NoThreadCall
  /\ NoVerification
  /\ NoSessionCall
  /\ NoRun
  /\ NoCaptchaCall
  /\ page \in Pages
  /\ now \in Nows
  /\ l_pc = "start"
  /\ rows = <<>>
  /\ ref_date = NoDate
  /\ target_date_str = <<>>
  /\ target_links = <<>>
  /\ returned = NotReturned

\* link_finder.py:13-18
get_page ==
  /\ l_pc = "start"
  /\ rows' = page
  /\ l_pc' = "scan"
  /\ UNCHANGED <<page, now, ref_date, target_date_str, target_links, returned>>
  /\ UNCHANGED notLinks

\* link_finder.py:124-126: session.get or the debug file raised; the except
\* prints and None is returned.
get_page_fails ==
  /\ l_pc = "start"
  /\ returned' = [kind |-> "None", links |-> <<>>]
  /\ l_pc' = "done"
  /\ UNCHANGED <<page, now, rows, ref_date, target_date_str, target_links>>
  /\ UNCHANGED notLinks

\* link_finder.py:20-50
find_reference_date ==
  /\ l_pc = "scan"
  /\ ref_date' = reference_date(rows, now)
  /\ l_pc' = "adjust"
  /\ UNCHANGED <<page, now, rows, target_date_str, target_links, returned>>
  /\ UNCHANGED notLinks

\* link_finder.py:52-65
adjust_for_weekend ==
  /\ l_pc = "adjust"
  /\ IF ref_date # NoDate
     THEN /\ ref_date' = adjusted(ref_date)
          /\ target_date_str' = MMDD(ref_date')
     ELSE UNCHANGED <<ref_date, target_date_str>>
  /\ l_pc' = "select"
  /\ UNCHANGED <<page, now, rows, target_links, returned>>
  /\ UNCHANGED notLinks

\* link_finder.py:67-113
find_links ==
  /\ l_pc = "select"
  /\ LET yyyy_prefix == IF ref_date # NoDate THEN YYYY(ref_date.y) ELSE YYYY(now.year)
     IN target_links' = select_links(rows, target_date_str, yyyy_prefix)
  /\ l_pc' = "return"
  /\ UNCHANGED <<page, now, rows, ref_date, target_date_str, returned>>
  /\ UNCHANGED notLinks

\* link_finder.py:115-121
return_links ==
  /\ l_pc = "return"
  /\ returned' = IF target_links # <<>>
                 THEN [kind |-> "list", links |-> target_links]
                 ELSE [kind |-> "None", links |-> <<>>]
  /\ l_pc' = "done"
  /\ UNCHANGED <<page, now, rows, ref_date, target_date_str, target_links>>
  /\ UNCHANGED notLinks

NextLinks ==
  \/ get_page
  \/ get_page_fails
  \/ find_reference_date
  \/ adjust_for_weekend
  \/ find_links
  \/ return_links

SpecLinks == InitLinks /\ [][NextLinks]_vars

\* --------------------------------------------------------- session_manager
\* A domain is the sequence of its pieces, so that endswith and startswith act
\* on it as they do on the string: 'www.stooq.com' is <<"www", ".", "stooq.com">>
\* and 'notstooq.com' is <<"not", "stooq.com">>.
StooqCom == <<"stooq.com">>

DotStooqCom == <<".", "stooq.com">>

\* A cookie of the browser context is a dict holding the keys in keys.
ContextCookie(keys, name, value, domain, path) ==
  [keys |-> keys, name |-> name, value |-> value, domain |-> domain, path |-> path]

\* dict.get(key, default)
get(cookie, key, default) == IF key \in cookie.keys THEN cookie[key] ELSE default

\* Every cookie passes.
is_stooq_any(c) == TRUE

\* session_manager.py:42
is_stooq(c) == endswith(get(c, "domain", <<>>), StooqCom)

\* session_manager.py:52
critical == {"PHPSESSID", "uid", "cookie_uu"}

\* session_manager.py:49-57: the domain the cookie is set under.
domain_of(cookie) ==
  LET domain == get(cookie, "domain", DotStooqCom)
      dotted == IF cookie.name \in critical /\ ~startswith(domain, <<".">>)
                THEN <<".">> \o domain
                ELSE domain
  IN IF dotted = StooqCom THEN DotStooqCom ELSE dotted

\* A cookie of the requests jar.
JarCookie(name, value, domain, path) ==
  [name |-> name, value |-> value, domain |-> domain, path |-> path]

\* RequestsCookieJar.set_cookie: the jar holds one cookie for a domain, path
\* and name.
set_cookie(jar, c) ==
  {x \in jar : <<x.domain, x.path, x.name>> # <<c.domain, c.path, c.name>>} \cup {c}

\* RequestsCookieJar.update(other jar): set_cookie for each cookie of other.
update(jar, other) ==
  {x \in jar : \A c \in other : <<x.domain, x.path, x.name>> # <<c.domain, c.path, c.name>>}
    \cup other

\* session_manager.py:88-95
error_indicators ==
  <<<<"Unauthorized">>, <<"Access Denied">>, <<"401 ", "Unauthorized">>, <<"403 Forbidden">>,
    <<"Please login">>, <<"Authorization required">>>>

\* No indicator is ever found.
has_error_never(text) == FALSE

\* session_manager.py:96
has_error(text) == \E i \in 1 .. Len(error_indicators) : Contains(text, error_indicators[i])

\* Bounds: the cookies of the browser context, and the calls made one after
\* the other.
MaxCookies == 2

MaxSessionCalls == 2

\* The cookies a context may hold: a session cookie of stooq.com and one of
\* www.stooq.com without a path, the cookie of tests/test_main.py:46 with a
\* name and a value only, cookies of a domain that ends in the letters
\* stooq.com and of another site, a dict without a name, and a cookie of
\* .stooq.com for a path.
ContextCookies ==
  {ContextCookie({"name", "value", "domain", "path"}, "PHPSESSID", "s1", StooqCom, "/"),
   ContextCookie({"name", "value", "domain"}, "uid", "u1", <<"www", ".", "stooq.com">>, ""),
   ContextCookie({"name", "value"}, "test_cookie", "test_value", <<>>, ""),
   ContextCookie({"name", "value", "domain", "path"}, "PHPSESSID", "x1", <<"not", "stooq.com">>, "/"),
   ContextCookie({"name", "value", "domain", "path"}, "ad", "a1", <<"ads.example.com">>, "/"),
   ContextCookie({"value", "domain", "path"}, "", "n1", DotStooqCom, "/"),
   ContextCookie({"name", "value", "domain", "path"}, "lang", "en", StooqCom, "/db")}

RECURSIVE CookieLists(_)
\* The lists of at most n cookies.
CookieLists(n) ==
  IF n = 0 THEN {<<>>}
  ELSE CookieLists(n - 1) \cup {Append(l, c) : l \in CookieLists(n - 1), c \in ContextCookies}

\* What session.cookies may hold before a call: nothing, or a session cookie
\* an earlier response of stooq.com set.
Jars == {{}, {JarCookie("PHPSESSID", "s0", DotStooqCom, "/")}}

\* The file at cookie_path: absent, a jar pickled by an earlier run, or bytes
\* pickle.load cannot read.
CookieFiles ==
  {NoCookieFile,
   [exists |-> TRUE, ok |-> TRUE, jar |-> {JarCookie("uid", "u0", DotStooqCom, "/")}],
   [exists |-> TRUE, ok |-> FALSE, jar |-> {}]}

\* The answers of https://stooq.com/db/.
Responses ==
  {[status_code |-> 200, text |-> <<"Logged in content">>],
   [status_code |-> 200, text |-> <<"Error ", "401 ", "Unauthorized">>],
   [status_code |-> 200, text |-> <<"Please login", " first">>],
   [status_code |-> 200, text |-> <<"unauthorized">>],
   [status_code |-> 403, text |-> <<"Logged in content">>],
   [status_code |-> 403, text |-> <<"Access Denied">>]}

InitSession ==
  /\ db = <<>>
  /\ NoRecognizeCall
  /\ store = Absent
  /\ NoLoaderCall
  /\ NoThreadCall
  /\ NoVerification
  /\ NoLinkSearch
  /\ NoRun
  /\ NoCaptchaCall
  /\ context \in CookieLists(MaxCookies)
  /\ cookies = <<>>
  /\ stooq_cookies = <<>>
  /\ session_cookies \in Jars
  /\ cookie_file \in CookieFiles
  /\ res = NoResponse
  /\ s_op = "none"
  /\ s_pc = "idle"
  /\ s_i = 0
  /\ set_calls = <<>>
  /\ gets = 0
  /\ s_returned = "none"
  /\ s_calls = 0

\* A call may start when none is running and the bound allows one more.
MayCall == s_pc \in {"idle", "done"} /\ s_calls < MaxSessionCalls

\* session_manager.py:36-44
save_session ==
  /\ MayCall
  /\ s_op' = "save_session"
  /\ s_calls' = s_calls + 1
  /\ cookies' = context
  /\ stooq_cookies' = SelectSeq(cookies', is_stooq)
  /\ s_i' = 1
  /\ set_calls' = <<>>
  /\ gets' = 0
  /\ res' = NoResponse
  /\ s_returned' = "none"
  /\ s_pc' = "sync"
  /\ UNCHANGED <<context, session_cookies, cookie_file>>
  /\ UNCHANGED notSession

\* session_manager.py:45-61: one pass of the loop; a dict without 'name' or
\* 'value' raises KeyError, which the except passes over.
sync_cookie ==
  /\ s_op = "save_session"
  /\ s_pc = "sync"
  /\ s_i <= Len(stooq_cookies)
  /\ LET cookie == stooq_cookies[s_i]
         c == JarCookie(cookie.name, cookie.value, domain_of(cookie), get(cookie, "path", "/"))
     IN IF {"name", "value"} \subseteq cookie.keys
        THEN /\ session_cookies' = set_cookie(session_cookies, c)
             /\ set_calls' = Append(set_calls, c)
        ELSE UNCHANGED <<session_cookies, set_calls>>
  /\ s_i' = s_i + 1
  /\ UNCHANGED <<context, cookies, stooq_cookies, cookie_file, res, s_op, s_pc, gets, s_returned,
                 s_calls>>
  /\ UNCHANGED notSession

\* session_manager.py:63-66
dump_cookies ==
  /\ s_op = "save_session"
  /\ s_pc = "sync"
  /\ s_i > Len(stooq_cookies)
  /\ cookie_file' = [exists |-> TRUE, ok |-> TRUE, jar |-> session_cookies]
  /\ s_returned' = "None"
  /\ s_pc' = "done"
  /\ UNCHANGED <<context, cookies, stooq_cookies, session_cookies, res, s_op, s_i, set_calls, gets,
                 s_calls>>
  /\ UNCHANGED notSession

\* session_manager.py:64: open(cookie_path, 'wb') raises OSError (the
\* directory is gone or not writable); nothing catches it.
dump_cookies_fails ==
  /\ s_op = "save_session"
  /\ s_pc = "sync"
  /\ s_i > Len(stooq_cookies)
  /\ s_returned' = "raised"
  /\ s_pc' = "done"
  /\ UNCHANGED <<context, cookies, stooq_cookies, session_cookies, cookie_file, res, s_op, s_i,
                 set_calls, gets, s_calls>>
  /\ UNCHANGED notSession

\* session_manager.py:76: os.path.exists(cookie_path)
load_session ==
  /\ MayCall
  /\ s_op' = "load_session"
  /\ s_calls' = s_calls + 1
  /\ cookies' = <<>>
  /\ stooq_cookies' = <<>>
  /\ s_i' = 0
  /\ set_calls' = <<>>
  /\ gets' = 0
  /\ res' = NoResponse
  /\ IF cookie_file.exists
     THEN s_returned' = "none" /\ s_pc' = "load"
     ELSE s_returned' = "False" /\ s_pc' = "done"
  /\ UNCHANGED <<context, session_cookies, cookie_file>>
  /\ UNCHANGED notSession

\* session_manager.py:78-79
load_cookies ==
  /\ s_op = "load_session"
  /\ s_pc = "load"
  /\ cookie_file.ok
  /\ session_cookies' = update(session_cookies, cookie_file.jar)
  /\ s_pc' = "get"
  /\ UNCHANGED <<context, cookies, stooq_cookies, cookie_file, res, s_op, s_i, set_calls, gets,
                 s_returned, s_calls>>
  /\ UNCHANGED notSession

\* session_manager.py:78-79, 105-108: open or pickle.load raises (the file
\* cannot be read, or does not hold a pickle).
load_cookies_fails ==
  /\ s_op = "load_session"
  /\ s_pc = "load"
  /\ s_returned' = "False"
  /\ s_pc' = "done"
  /\ UNCHANGED <<context, cookies, stooq_cookies, session_cookies, cookie_file, res, s_op, s_i,
                 set_calls, gets, s_calls>>
  /\ UNCHANGED notSession

\* session_manager.py:83-104, 107-108
check_session(r) ==
  /\ s_op = "load_session"
  /\ s_pc = "get"
  /\ gets' = gets + 1
  /\ res' = r
  /\ s_returned' = IF r.status_code = 200 /\ ~has_error(r.text) THEN "True" ELSE "False"
  /\ s_pc' = "done"
  /\ UNCHANGED <<context, cookies, stooq_cookies, session_cookies, cookie_file, s_op, s_i, set_calls,
                 s_calls>>
  /\ UNCHANGED notSession

\* session_manager.py:83, 105-108: session.get raises (no connection, timeout).
check_session_fails ==
  /\ s_op = "load_session"
  /\ s_pc = "get"
  /\ gets' = gets + 1
  /\ s_returned' = "False"
  /\ s_pc' = "done"
  /\ UNCHANGED <<context, cookies, stooq_cookies, session_cookies, cookie_file, res, s_op, s_i,
                 set_calls, s_calls>>
  /\ UNCHANGED notSession

NextSession ==
  \/ save_session
  \/ sync_cookie
  \/ dump_cookies
  \/ dump_cookies_fails
  \/ load_session
  \/ load_cookies
  \/ load_cookies_fails
  \/ \E r \in Responses : check_session(r)
  \/ check_session_fails

SpecSession == InitSession /\ [][NextSession]_vars

\* ------------------------------------------------------------- main.py run
\* strftime("%Y%m%d")
YYYYMMDD(date) == YYYY(date.y) \o MMDD(date)

\* main.py:32-44: target_date_clean; args.date is NoDate for no --date.
target_of(a, today) ==
  IF a.date # NoDate THEN YYYYMMDD(a.date) ELSE YYYYMMDD(DayBefore(today))

\* The value of get_latest_download_link: None, the flat list of (url, name)
\* pairs link_finder.py returns (shape "flat", rows holding the pairs), or a
\* list of rows, each a list of pairs, which is what main.py:79-88 and
\* 175-192 index (shape "rows").
Found(shape, items) == [shape |-> shape, rows |-> items]

\* main.py:79, 175: any(target_date_clean in t[1] for t in row).  In a row, t
\* is a pair and t[1] its name; in a pair, t is the url and then the name and
\* t[1] the second character of that string.
keeps(shape, row, target) ==
  IF shape = "rows"
  THEN \E i \in 1 .. Len(row) : Contains(row[i][2], target)
  ELSE \E i \in 1 .. Len(row) : Contains(SubSeq(row[i], 2, 2), target)

\* main.py:77-79, 174-175
filter_rows(c, target) ==
  LET kept(row) == keeps(c.shape, row, target)
  IN IF target # <<>> THEN Found(c.shape, SelectSeq(c.rows, kept)) ELSE c

\* main.py:183
limit_rows(target, c) == IF target = <<>> THEN 3 ELSE Len(c.rows)

\* The next row is tried whatever the target date.
after_failure_continue(target, idx, count) ==
  IF idx < count THEN [pc |-> "row", row |-> idx + 1] ELSE [pc |-> "final", row |-> idx]

\* main.py:185, 256-259: after a failed row, break when there is a target
\* date, else continue with the next of the rows to process, if any.
after_failure(target, idx, count) ==
  IF target # <<>> THEN [pc |-> "final", row |-> idx]
  ELSE IF idx < count THEN [pc |-> "row", row |-> idx + 1]
  ELSE [pc |-> "final", row |-> idx]

\* sr.fail(message), sr.success({status, message, files})
Fail(message) == [kind |-> "fail", message |-> message, files |-> <<>>]

Success(status, files) == [kind |-> "success", message |-> status, files |-> files]

\* The names of the pairs of a row.
NamesOf(row) == [i \in 1 .. Len(row) |-> row[i][2]]

Range(seq) == {seq[i] : i \in 1 .. Len(seq)}

\* What a download and its verification come to (downloader.py:19-53,
\* main.py:194-237): the download raised; an HTML page was saved and
\* rejected; the file was saved and passed, held 'Unauthorized', held fewer
\* than 5 rows, held no marker, or could not be read.
Outcomes == {"failed", "html", "ok", "unauthorized", "few_rows", "no_marker", "read_error"}

D0115 == <<"0", "1", "1", "5">>

\* The list link_finder.py returns for the page of tests/test_main.py:78-101
\* in 2026, the same three pairs as one row, a row of the day before, and a
\* row of two links one of which is named for the 16th.
Flat0116 == select_links(<<TableRow(<<"12:00">>, FullLinks(D0116))>>, <<>>, YYYY(2026))

RowOld == RowTargets(TableRow(<<>>, FullLinks(D0115)), <<>>, YYYY(2026))

RowB ==
  <<<<url_of(<<"db/", "m/", "?t=d">>), final_name(YYYY(2026), LinkText(D0115, <<"_", "d">>))>>,
    <<url_of(<<"db/", "m/", "?t=h">>), final_name(YYYY(2026), LinkText(D0116, <<"_", "h">>))>>>>

ScanResults ==
  {NoRows,
   Found("flat", Flat0116),
   Found("rows", <<Flat0116>>),
   Found("rows", <<Flat0116, RowB>>),
   Found("rows", <<RowOld, Flat0116>>)}

\* --date absent, 2026-01-16, and 2026-02-30, which strptime rejects.
ArgsSet ==
  {[date |-> d, force |-> f] : d \in {NoDate, Date(2026, 1, 16), Date(2026, 2, 30)}, f \in BOOLEAN}

\* Saturday 17 and Monday 19 January 2026.
Clocks == {Date(2026, 1, 17), Date(2026, 1, 19)}

DataDirs == {{}, Range(NamesOf(Flat0116))}

InitRun ==
  /\ db = <<>>
  /\ NoRecognizeCall
  /\ store = Absent
  /\ NoLoaderCall
  /\ NoThreadCall
  /\ NoVerification
  /\ NoLinkSearch
  /\ NoSessionCall
  /\ NoCaptchaCall
  /\ args = [date |-> NoDate, force |-> FALSE]
  /\ clock \in Clocks
  /\ data_dir \in DataDirs
  /\ r_pc = "start"
  /\ target_date_clean = <<>>
  /\ candidate_rows = NoRows
  /\ row_idx = 0
  /\ link_idx = 0
  /\ downloaded_files = <<>>
  /\ r_row_failed = FALSE
  /\ r_unauthorized_detected = FALSE
  /\ success_row_index = -1
  /\ final_files = <<>>
  /\ report = NoReport
  /\ run_returned = "none"
  /\ attempted = <<>>
  /\ written = {}
  /\ browser = [state |-> "none", closes |-> 0]
  /\ trace = <<>>
  /\ scans = <<>>

\* run reports and returns.
Ends(rep, value) ==
  /\ report' = rep
  /\ run_returned' = value
  /\ r_pc' = "done"

\* One call run made, and what it came to.
Call(op, outcome) == [op |-> op, result |-> outcome]

\* main.py:114: p.chromium.launch(); the browser and how often it was closed.
launch == [state |-> "open", closes |-> 0]

\* The browser is left as it is.
close_not(b) == b

\* browser.close()
close(b) == [state |-> "closed", closes |-> b.closes + 1]

\* main.py:93-95: the files exist, no --force and no --date.
skips(all_exist, a) == all_exist /\ ~a.force /\ a.date = NoDate

\* The downloads follow the CAPTCHA at once.
StepAfter_auth_skips(step) ==
  CASE step = "config" -> "auth"
    [] step = "auth" -> "rescan"
    [] step = "save" -> "session"
    [] step = "session" -> "rescan"

\* main.py:138-167: what follows a step that came out well: the settings,
\* the CAPTCHA, save_session, load_session, the second scan.
StepAfter(step) ==
  CASE step = "config" -> "auth"
    [] step = "auth" -> "save"
    [] step = "save" -> "session"
    [] step = "session" -> "rescan"

\* 'Unauthorized' in a file goes unnoticed.
detected_never(o) == FALSE

\* main.py:212-216: "Unauthorized" in content
detected(o) == o = "unauthorized"

\* main.py:31-44
run_start(a) ==
  /\ r_pc = "start"
  /\ args' = a
  /\ IF a.date # NoDate /\ ~IsDate(a.date.y, a.date.m, a.date.d)
     THEN /\ Ends(Fail("Invalid date format"), "False")
          /\ UNCHANGED target_date_clean
     ELSE /\ target_date_clean' = target_of(a, clock)
          /\ r_pc' = "scan"
          /\ UNCHANGED <<report, run_returned>>
  /\ UNCHANGED <<clock, scans, data_dir, candidate_rows, row_idx, link_idx, downloaded_files, r_row_failed,
                 r_unauthorized_detected, success_row_index, final_files, attempted, written,
                 browser, trace>>
  /\ UNCHANGED notRun

\* main.py:72-134: the first scan, the filter and the check for files that
\* exist, and then the launch of the browser.  Unpacking '_, full_name' from
\* a string of a flat list raises ValueError.
first_scan(c) ==
  /\ r_pc = "scan"
  /\ scans' = Append(scans, c)
  /\ LET kept == filter_rows(c, target_date_clean)
         selected_row == kept.rows[1]
         all_exist == \A i \in 1 .. Len(selected_row) : selected_row[i][2] \in data_dir
     IN IF c.rows = <<>>
        THEN /\ candidate_rows' = c
             /\ r_pc' = "config"
             /\ browser' = launch
             /\ trace' = Append(trace, Call("launch", "None"))
             /\ UNCHANGED <<report, run_returned>>
        ELSE /\ candidate_rows' = kept
             /\ IF kept.rows = <<>>
                THEN /\ Ends(Fail("Target date not found in available links"), "False")
                     /\ UNCHANGED <<browser, trace>>
                ELSE IF kept.shape = "flat"
                THEN /\ Ends(NoReport, "raised")
                     /\ UNCHANGED <<browser, trace>>
                ELSE IF skips(all_exist, args)
                THEN /\ Ends(Success("skipped", NamesOf(selected_row)), "True")
                     /\ UNCHANGED <<browser, trace>>
                ELSE /\ r_pc' = "config"
                     /\ browser' = launch
                     /\ trace' = Append(trace, Call("launch", "None"))
                     /\ UNCHANGED <<report, run_returned>>
  /\ UNCHANGED <<args, clock, data_dir, target_date_clean, row_idx, link_idx, downloaded_files,
                 r_row_failed, r_unauthorized_detected, success_row_index, final_files, attempted,
                 written>>
  /\ UNCHANGED notRun

\* main.py:138-141: configure_stooq_settings(page)
configure(ok) ==
  /\ r_pc = "config"
  /\ IF ok
     THEN /\ r_pc' = StepAfter("config")
          /\ trace' = Append(trace, Call("configure_stooq_settings", "True"))
          /\ UNCHANGED <<report, run_returned, browser>>
     ELSE /\ Ends(Fail("Settings configuration failed"), "False")
          /\ browser' = close(browser)
          /\ trace' = trace \o <<Call("configure_stooq_settings", "False"), Call("close", "None")>>
  /\ UNCHANGED <<args, clock, scans, data_dir, target_date_clean, candidate_rows, row_idx, link_idx,
                 downloaded_files, r_row_failed, r_unauthorized_detected, success_row_index,
                 final_files, attempted, written>>
  /\ UNCHANGED notRun

\* main.py:145-148: solve_stooq_captcha(page)
authorize(ok) ==
  /\ r_pc = "auth"
  /\ IF ok
     THEN /\ r_pc' = StepAfter("auth")
          /\ trace' = Append(trace, Call("solve_stooq_captcha", "True"))
          /\ UNCHANGED <<report, run_returned, browser>>
     ELSE /\ Ends(Fail("Authorization failed"), "False")
          /\ browser' = close(browser)
          /\ trace' = trace \o <<Call("solve_stooq_captcha", "False"), Call("close", "None")>>
  /\ UNCHANGED <<args, clock, scans, data_dir, target_date_clean, candidate_rows, row_idx, link_idx,
                 downloaded_files, r_row_failed, r_unauthorized_detected, success_row_index,
                 final_files, attempted, written>>
  /\ UNCHANGED notRun

\* main.py:151 with session_manager.py:34-66: save_session(context, session,
\* cookie_path) returns None once the cookies are in the file; open() and
\* pickle.dump are in no try, so what they raise leaves run.
write_session(ok) ==
  /\ r_pc = "save"
  /\ IF ok
     THEN /\ r_pc' = StepAfter("save")
          /\ trace' = Append(trace, Call("save_session", "None"))
          /\ UNCHANGED <<report, run_returned>>
     ELSE /\ Ends(NoReport, "raised")
          /\ trace' = Append(trace, Call("save_session", "raised"))
  /\ UNCHANGED <<args, clock, scans, data_dir, target_date_clean, candidate_rows, row_idx, link_idx,
                 downloaded_files, r_row_failed, r_unauthorized_detected, success_row_index,
                 final_files, attempted, written, browser>>
  /\ UNCHANGED notRun

\* main.py:155-159: load_session as the check of the saved session.
verify_session(ok) ==
  /\ r_pc = "session"
  /\ IF ok
     THEN /\ r_pc' = StepAfter("session")
          /\ trace' = Append(trace, Call("load_session", "True"))
          /\ UNCHANGED <<report, run_returned, browser>>
     ELSE /\ Ends(Fail("Session verification failed"), "False")
          /\ browser' = close(browser)
          /\ trace' = trace \o <<Call("load_session", "False"), Call("close", "None")>>
  /\ UNCHANGED <<args, clock, scans, data_dir, target_date_clean, candidate_rows, row_idx, link_idx,
                 downloaded_files, r_row_failed, r_unauthorized_detected, success_row_index,
                 final_files, attempted, written>>
  /\ UNCHANGED notRun

\* main.py:167-183
second_scan(c) ==
  /\ r_pc = "rescan"
  /\ scans' = Append(scans, c)
  /\ LET kept == filter_rows(c, target_date_clean)
     IN IF c.rows = <<>>
        THEN /\ candidate_rows' = c
             /\ Ends(Fail("No download links found after auth"), "False")
             /\ browser' = close(browser)
             /\ trace' = Append(trace, Call("close", "None"))
             /\ UNCHANGED row_idx
        ELSE /\ candidate_rows' = kept
             /\ IF kept.rows = <<>>
                THEN /\ Ends(Fail("Target date not found in available links"), "False")
                     /\ browser' = close(browser)
                     /\ trace' = Append(trace, Call("close", "None"))
                     /\ UNCHANGED row_idx
                ELSE /\ r_pc' = "row"
                     /\ row_idx' = 1
                     /\ UNCHANGED <<report, run_returned, browser, trace>>
  /\ success_row_index' = -1
  /\ UNCHANGED <<args, clock, data_dir, target_date_clean, link_idx, downloaded_files, r_row_failed,
                 r_unauthorized_detected, final_files, attempted, written>>
  /\ UNCHANGED notRun

\* main.py:185-192: the next row; iterating '(url, expected_name)' over the
\* strings of a pair of a flat list raises ValueError.
start_row ==
  /\ r_pc = "row"
  /\ downloaded_files' = <<>>
  /\ r_row_failed' = FALSE
  /\ r_unauthorized_detected' = FALSE
  /\ link_idx' = 1
  /\ IF candidate_rows.shape = "flat"
     THEN Ends(NoReport, "raised")
     ELSE /\ r_pc' = IF candidate_rows.rows[row_idx] = <<>> THEN "row_end" ELSE "link"
          /\ UNCHANGED <<report, run_returned>>
  /\ UNCHANGED <<args, clock, scans, data_dir, target_date_clean, candidate_rows, row_idx,
                 success_row_index, final_files, attempted, written, browser, trace>>
  /\ UNCHANGED notRun

\* main.py:192-240 with downloader.py:19-53: one link of the row.
download(o) ==
  /\ r_pc = "link"
  /\ LET links == candidate_rows.rows[row_idx]
         expected_name == links[link_idx][2]
         saved == o # "failed"
         verified == o \notin {"failed", "html"}
     IN /\ attempted' = Append(attempted, <<row_idx, expected_name>>)
        /\ trace' = Append(trace, Call("download_with_browser", o))
        /\ data_dir' = IF saved THEN data_dir \cup {expected_name} ELSE data_dir
        /\ written' = IF saved THEN written \cup {expected_name} ELSE written
        /\ downloaded_files' =
             IF verified THEN Append(downloaded_files, expected_name) ELSE downloaded_files
        /\ r_row_failed' = (o # "ok")
        /\ r_unauthorized_detected' = detected(o)
        /\ IF o = "ok" /\ link_idx < Len(links)
           THEN link_idx' = link_idx + 1 /\ r_pc' = "link"
           ELSE link_idx' = link_idx /\ r_pc' = "row_end"
  /\ UNCHANGED <<args, clock, scans, target_date_clean, candidate_rows, row_idx, success_row_index,
                 final_files, report, run_returned, browser>>
  /\ UNCHANGED notRun

\* main.py:242-266: a failed row is discarded and ends the run or the loop,
\* or the next row follows; a row that passed ends the loop.
end_row ==
  /\ r_pc = "row_end"
  /\ LET count == Min2(limit_rows(target_date_clean, candidate_rows), Len(candidate_rows.rows))
         next == after_failure(target_date_clean, row_idx, count)
     IN IF r_row_failed
        THEN /\ data_dir' = data_dir \ Range(downloaded_files)
             /\ UNCHANGED <<success_row_index, final_files>>
             /\ IF r_unauthorized_detected
                THEN /\ Ends(Fail("Unauthorized access detected"), "False")
                     /\ browser' = close(browser)
                     /\ trace' = Append(trace, Call("close", "None"))
                     /\ UNCHANGED row_idx
                ELSE /\ r_pc' = next.pc
                     /\ row_idx' = next.row
                     /\ UNCHANGED <<report, run_returned, browser, trace>>
        ELSE /\ success_row_index' = row_idx
             /\ final_files' = downloaded_files
             /\ r_pc' = "final"
             /\ UNCHANGED <<data_dir, row_idx, report, run_returned, browser, trace>>
  /\ UNCHANGED <<args, clock, scans, target_date_clean, candidate_rows, link_idx, downloaded_files,
                 r_row_failed, r_unauthorized_detected, attempted, written>>
  /\ UNCHANGED notRun

\* main.py:268-282
finish ==
  /\ r_pc = "final"
  /\ browser' = close(browser)
  /\ trace' = Append(trace, Call("close", "None"))
  /\ IF success_row_index # -1
     THEN Ends(Success("completed", final_files), "True")
     ELSE IF target_date_clean # <<>>
     THEN Ends(Fail("Data for the date failed verification and was discarded"), "False")
     ELSE Ends(Fail("All candidate rows failed verification"), "False")
  /\ UNCHANGED <<args, clock, scans, data_dir, target_date_clean, candidate_rows, row_idx, link_idx,
                 downloaded_files, r_row_failed, r_unauthorized_detected, success_row_index,
                 final_files, attempted, written>>
  /\ UNCHANGED notRun

NextRun ==
  \/ \E a \in ArgsSet : run_start(a)
  \/ \E c \in ScanResults : first_scan(c)
  \/ \E ok \in BOOLEAN : configure(ok)
  \/ \E ok \in BOOLEAN : authorize(ok)
  \/ \E ok \in BOOLEAN : write_session(ok)
  \/ \E ok \in BOOLEAN : verify_session(ok)
  \/ \E c \in ScanResults : second_scan(c)
  \/ start_row
  \/ \E o \in Outcomes : download(o)
  \/ end_row
  \/ finish

SpecRun == InitRun /\ [][NextRun]_vars

\* ------------------------------------------- captcha.py solve_stooq_captcha
\* Bounds: max_retries, and the download events captured in one attempt.
MaxRetries == 3

MaxDownloads == 2

\* captcha.py:149: for click_attempt in range(2)
ClickTries == 2

\* No download counts as a sign of authorization.
authorized_never(d) == FALSE

\* captcha.py:156, 161, 164, 205: 'if downloads'
authorized(d) == d # <<>>

\* The image a response carries, named by the attempt and click that got it.
body(r) == <<r.attempt, r.click>>

\* What the page shows 3 s after Enter (captcha.py:180-196): 'Authorization
\* successful!'; 'Incorrect code' or 'f15'; neither, with #f15 hidden or
\* visible; or page.content() raised.
Contents == {"successful", "incorrect", "hidden", "visible", "raised"}

\* Where the call waits inside a page operation, so that the listener can
\* run: the click with its expect_response, the wait after a failed click,
\* page.fill, keyboard.press, and the wait and page.content() after Enter.
InPageCall == {"click", "click_wait", "fill", "press", "result"}

InitCaptcha ==
  /\ db = <<>>
  /\ NoRecognizeCall
  /\ store = Absent
  /\ NoLoaderCall
  /\ NoThreadCall
  /\ NoVerification
  /\ NoLinkSearch
  /\ NoSessionCall
  /\ NoRun
  /\ max_retries \in 1 .. MaxRetries
  /\ c_pc = "start"
  /\ c_attempt = 0
  /\ downloads = <<>>
  /\ listener_added = FALSE
  /\ click_attempt = 0
  /\ click_success = FALSE
  /\ resp = NoResp
  /\ temp_captcha = <<>>
  /\ solution = <<>>
  /\ captcha_solved = FALSE
  /\ c_returned = "none"
  /\ filled = <<>>
  /\ submitted = <<>>
  /\ cancelled = <<>>
  /\ authorized_at_click = {}
  /\ seen = {}

\* captcha.py:117-127: the page is loaded and reloaded.
open_page ==
  /\ c_pc = "start"
  /\ c_pc' = "attempt"
  /\ c_attempt' = 0
  /\ captcha_solved' = FALSE
  /\ UNCHANGED <<max_retries, downloads, listener_added, click_attempt, click_success, resp,
                 temp_captcha, solution, c_returned, filled, submitted, cancelled,
                 authorized_at_click, seen>>
  /\ UNCHANGED notCaptcha

\* captcha.py:128-148: the next attempt starts with no download and the
\* listener on the page; after the last, line 226 returns captcha_solved.
start_attempt ==
  /\ c_pc = "attempt"
  /\ IF c_attempt < max_retries
     THEN /\ downloads' = <<>>
          /\ listener_added' = TRUE
          /\ click_success' = FALSE
          /\ click_attempt' = 0
          /\ c_pc' = "click"
          /\ UNCHANGED c_returned
     ELSE /\ c_returned' = IF captcha_solved THEN "True" ELSE "False"
          /\ c_pc' = "done"
          /\ UNCHANGED <<downloads, listener_added, click_success, click_attempt>>
  /\ UNCHANGED <<max_retries, c_attempt, resp, temp_captcha, solution, captcha_solved, filled,
                 submitted, cancelled, authorized_at_click, seen>>
  /\ UNCHANGED notCaptcha

\* captcha.py:132-133: the listener, run while the call waits in a page
\* operation.
on_download ==
  /\ listener_added
  /\ c_pc \in InPageCall
  /\ Len(downloads) < MaxDownloads
  /\ downloads' = Append(downloads, <<c_attempt, Len(downloads) + 1>>)
  /\ seen' = seen \cup {c_attempt}
  /\ UNCHANGED <<max_retries, c_pc, c_attempt, listener_added, click_attempt, click_success, resp,
                 temp_captcha, solution, captcha_solved, c_returned, filled, submitted, cancelled,
                 authorized_at_click>>
  /\ UNCHANGED notCaptcha

\* captcha.py:150-158: 'with page.expect_response(...) as resp' binds resp
\* before the click; the block ends with the image response, or the click
\* or the wait for the response raises and the bare except looks at
\* downloads.
click(arrived) ==
  /\ c_pc = "click"
  /\ resp' = [attempt |-> c_attempt, click |-> click_attempt, received |-> arrived]
  /\ IF arrived \/ authorized(downloads)
     THEN click_success' = TRUE /\ c_pc' = "check"
     ELSE click_success' = click_success /\ c_pc' = "click_wait"
  /\ UNCHANGED <<max_retries, c_attempt, downloads, listener_added, click_attempt, temp_captcha,
                 solution, captcha_solved, c_returned, filled, submitted, cancelled,
                 authorized_at_click, seen>>
  /\ UNCHANGED notCaptcha

\* captcha.py:149, 159: after page.wait_for_timeout(1000) the second click,
\* or the end of the click loop.
click_again ==
  /\ c_pc = "click_wait"
  /\ IF click_attempt + 1 < ClickTries
     THEN click_attempt' = click_attempt + 1 /\ c_pc' = "click"
     ELSE click_attempt' = click_attempt /\ c_pc' = "check"
  /\ UNCHANGED <<max_retries, c_attempt, downloads, listener_added, click_success, resp,
                 temp_captcha, solution, captcha_solved, c_returned, filled, submitted, cancelled,
                 authorized_at_click, seen>>
  /\ UNCHANGED notCaptcha

\* captcha.py:161-164, 197-201: no click and no download raises; no download
\* leads to the CAPTCHA; a download is cancelled as 'Already authorized!'.
check_downloads ==
  /\ c_pc = "check"
  /\ authorized_at_click' =
       IF downloads # <<>> THEN authorized_at_click \cup {c_attempt} ELSE authorized_at_click
  /\ IF ~click_success /\ ~authorized(downloads)
     THEN /\ c_pc' = "except"
          /\ UNCHANGED <<cancelled, captcha_solved>>
     ELSE IF ~authorized(downloads)
     THEN /\ c_pc' = "image"
          /\ UNCHANGED <<cancelled, captcha_solved>>
     ELSE /\ cancelled' = Append(cancelled, downloads[1])
          /\ captcha_solved' = TRUE
          /\ c_pc' = "finally"
  /\ UNCHANGED <<max_retries, c_attempt, downloads, listener_added, click_attempt, click_success,
                 resp, temp_captcha, solution, c_returned, filled, submitted, seen>>
  /\ UNCHANGED notCaptcha

\* captcha.py:166-169: the body of resp is written to tmp/current_captcha.png;
\* open() has emptied the file when resp.value.body() raises.
write_image(ok) ==
  /\ c_pc = "image"
  /\ IF ok /\ resp.received
     THEN temp_captcha' = body(resp) /\ c_pc' = "solve"
     ELSE temp_captcha' = <<>> /\ c_pc' = "except"
  /\ UNCHANGED <<max_retries, c_attempt, downloads, listener_added, click_attempt, click_success,
                 resp, solution, captcha_solved, c_returned, filled, submitted, cancelled,
                 authorized_at_click, seen>>
  /\ UNCHANGED notCaptcha

\* captcha.py:171: solution = solve_text_from_image(temp_captcha), the text
\* read from the image in the file, or the recognizer raises.
solve_image(ok) ==
  /\ c_pc = "solve"
  /\ IF ok
     THEN solution' = temp_captcha /\ c_pc' = "fill"
     ELSE solution' = solution /\ c_pc' = "except"
  /\ UNCHANGED <<max_retries, c_attempt, downloads, listener_added, click_attempt, click_success,
                 resp, temp_captcha, captcha_solved, c_returned, filled, submitted, cancelled,
                 authorized_at_click, seen>>
  /\ UNCHANGED notCaptcha

\* captcha.py:175-176: page.fill("#f15", "") and page.fill("#f15", solution),
\* or the first of them raises for want of the field.
fill(ok) ==
  /\ c_pc = "fill"
  /\ IF ok
     THEN /\ filled' = Append(filled, [attempt |-> c_attempt, answer |-> solution])
          /\ c_pc' = "press"
     ELSE /\ filled' = filled
          /\ c_pc' = "except"
  /\ UNCHANGED <<max_retries, c_attempt, downloads, listener_added, click_attempt, click_success,
                 resp, temp_captcha, solution, captcha_solved, c_returned, submitted, cancelled,
                 authorized_at_click, seen>>
  /\ UNCHANGED notCaptcha

\* captcha.py:177: page.keyboard.press("Enter") sends what is in the field.
press_enter ==
  /\ c_pc = "press"
  /\ submitted' = Append(submitted, filled[Len(filled)])
  /\ c_pc' = "result"
  /\ UNCHANGED <<max_retries, c_attempt, downloads, listener_added, click_attempt, click_success,
                 resp, temp_captcha, solution, captcha_solved, c_returned, filled, cancelled,
                 authorized_at_click, seen>>
  /\ UNCHANGED notCaptcha

\* captcha.py:180-196: the page after Enter: solved on 'Authorization
\* successful!' and when #f15 is no longer visible, not solved on 'Incorrect
\* code' or 'f15' in the content and when #f15 is still visible; or the wait
\* or page.content() raises.
read_result(shown) ==
  /\ c_pc = "result"
  /\ captcha_solved' = (captcha_solved \/ shown \in {"successful", "hidden"})
  /\ c_pc' = IF shown = "raised" THEN "except" ELSE "finally"
  /\ UNCHANGED <<max_retries, c_attempt, downloads, listener_added, click_attempt, click_success,
                 resp, temp_captcha, solution, c_returned, filled, submitted, cancelled,
                 authorized_at_click, seen>>
  /\ UNCHANGED notCaptcha

\* captcha.py:203-217: the handler of the attempt: a download captured by
\* now is cancelled as 'Already authorized!', else the page is reloaded.
handle_exception ==
  /\ c_pc = "except"
  /\ IF authorized(downloads)
     THEN /\ cancelled' = Append(cancelled, downloads[1])
          /\ captcha_solved' = TRUE
     ELSE UNCHANGED <<cancelled, captcha_solved>>
  /\ c_pc' = "finally"
  /\ UNCHANGED <<max_retries, c_attempt, downloads, listener_added, click_attempt, click_success,
                 resp, temp_captcha, solution, c_returned, filled, submitted, authorized_at_click,
                 seen>>
  /\ UNCHANGED notCaptcha

\* captcha.py:219-226: the listener is removed; a solved attempt leaves the
\* loop and True is returned, else the next attempt follows.
end_attempt ==
  /\ c_pc = "finally"
  /\ listener_added' = FALSE
  /\ IF captcha_solved
     THEN /\ c_returned' = "True"
          /\ c_pc' = "done"
          /\ UNCHANGED c_attempt
     ELSE /\ c_attempt' = c_attempt + 1
          /\ c_pc' = "attempt"
          /\ UNCHANGED c_returned
  /\ UNCHANGED <<max_retries, downloads, click_attempt, click_success, resp, temp_captcha, solution,
                 captcha_solved, filled, submitted, cancelled, authorized_at_click, seen>>
  /\ UNCHANGED notCaptcha

NextCaptcha ==
  \/ open_page
  \/ start_attempt
  \/ on_download
  \/ \E arrived \in BOOLEAN : click(arrived)
  \/ click_again
  \/ check_downloads
  \/ \E ok \in BOOLEAN : write_image(ok)
  \/ \E ok \in BOOLEAN : solve_image(ok)
  \/ \E ok \in BOOLEAN : fill(ok)
  \/ press_enter
  \/ \E shown \in Contents : read_result(shown)
  \/ handle_exception
  \/ end_attempt

SpecCaptcha == InitCaptcha /\ [][NextCaptcha]_vars

\* ------------------------------------------------------------ the claims
\* What the latest recognize_char call worked on.
Glyph == last.normalized.arr

Normalized == last.normalized.kind = "array"

Classified == Normalized /\ last.raised = "none"

PairCount == Len(Pairs(db))

TemplateAt(i) == Pairs(db)[i].template

\* Every bitmap of the database has the glyph's shape, 40x40.
AllGlyphShaped == \A i \in 1 .. PairCount : TemplateAt(i).h = 40 /\ TemplateAt(i).w = 40

AllScored == \A i \in 1 .. PairCount : Broadcastable(TemplateAt(i))

\* The pairs whose template is bit-identical to the glyph.
Identical == {i \in 1 .. PairCount : TemplateAt(i) = Glyph}

IsOne(s) == s[1] = s[2]

IsZero(s) == s[1] = 0

ScoreAt(i) == Score(Glyph, TemplateAt(i))

\* The first pair, in enumeration order, that no pair beats.
FirstBest == MinOf({i \in 1 .. PairCount : \A j \in 1 .. PairCount : ~Greater(ScoreAt(j), ScoreAt(i))})

\* C1: whatever the database, a recognize call whose thresholded and filtered
\* mask has no foreground pixel finds no character, never raises and returns
\* the empty string.
C1_EmptyMaskGivesEmptyString ==
  (pc \in {"loop", "returned", "raised"} /\ mask.on = {})
    => (chars = <<>> /\ result = <<>> /\ pc # "raised")

\* A call on an image with ink that the filter removed entirely has returned
\* the empty string, with a database that holds templates.
C1_Witness ==
  /\ pc = "returned"
  /\ mask.on = {}
  /\ threshold_mask(img).on # {}
  /\ PairCount > 0
  /\ result = <<>>

\* C2: no recognize call ends by raising: every recognize_char call on a
\* retained component, with any loaded database, returns a label or "?".
C2_NeverRaises == pc # "raised"

\* C3 as stated: whenever the glyph is bit-identical to a stored template, the
\* classifier returns that template's label with best similarity 1.0.
C3_IdenticalGivesItsLabel ==
  Classified => \A i \in Identical : last.char = Pairs(db)[i].char /\ IsOne(last.max_score)

\* C3 amended: with a database of 40x40 bitmaps, a glyph with at least one
\* foreground pixel that is bit-identical to a stored template gets the label
\* of the first pair, in enumeration order, that holds such a template, with
\* best similarity 1.0; an all-false glyph gets best similarity 0.
C3_IdenticalGivesFirstSuchLabel ==
  (Normalized /\ AllGlyphShaped /\ Identical # {})
    => /\ last.raised = "none"
       /\ IF Glyph.on # {}
          THEN last.char = Pairs(db)[MinOf(Identical)].char /\ IsOne(last.max_score)
          ELSE IsZero(last.max_score)

\* The glyph matches a template that is not the first pair of the database.
C3_Witness ==
  /\ Normalized
  /\ AllGlyphShaped
  /\ Glyph.on # {}
  /\ Identical # {}
  /\ MinOf(Identical) > 1
  /\ last.char = Pairs(db)[MinOf(Identical)].char

\* C4: with at least one (label, template) pair, all of them scorable, the
\* call returns the label of the first pair in enumeration order whose score
\* equals the maximum over all pairs, and that maximum is the best score kept.
C4_FirstMaximumWins ==
  (Normalized /\ PairCount > 0 /\ AllScored)
    => /\ last.raised = "none"
       /\ last.char = Pairs(db)[FirstBest].char
       /\ SameScore(last.max_score, ScoreAt(FirstBest))

\* A later pair with another label ties with the winner, at a score strictly
\* between 0 and 1.
C4_Witness ==
  /\ Normalized
  /\ PairCount > 0
  /\ AllScored
  /\ \E j \in 1 .. PairCount :
       /\ j > FirstBest
       /\ SameScore(ScoreAt(j), ScoreAt(FirstBest))
       /\ Pairs(db)[j].char # Pairs(db)[FirstBest].char
  /\ ScoreAt(FirstBest)[1] > 0
  /\ ~IsOne(ScoreAt(FirstBest))
  /\ last.char = Pairs(db)[FirstBest].char

\* C5: the score of the glyph against every template (as numpy broadcasts it to
\* 40x40) is the same with the two bitmaps exchanged, lies in [0, 1], is 0 when
\* the two share no foreground pixel, and is 0 when their union is empty.
C5_ScoreSymmetricBounded ==
  Normalized =>
    \A i \in 1 .. PairCount :
      Broadcastable(TemplateAt(i)) =>
        LET t == Arr(target_size, target_size, Broadcast(TemplateAt(i)))
            s == Score(Glyph, t)
            r == Score(t, Glyph)
        IN /\ SameScore(s, r)
           /\ s[2] > 0
           /\ 0 <= s[1]
           /\ s[1] <= s[2]
           /\ (Glyph.on \cap t.on = {}) => s[1] = 0
           /\ (Glyph.on \cup t.on = {}) => s = <<0, 1>>

\* A glyph with foreground was scored against an all-false template and against
\* one it overlaps in part.
C5_Witness ==
  /\ Classified
  /\ Glyph.on # {}
  /\ \E i \in 1 .. PairCount : TemplateAt(i).on = {} /\ IsZero(ScoreAt(i))
  /\ \E i \in 1 .. PairCount : ScoreAt(i)[1] > 0 /\ ~IsOne(ScoreAt(i))

\* C6 as stated: a bitmap scored against an identical template scores 1.0.
C6_IdenticalScoresOne ==
  Classified => \A i \in Identical : IsOne(ScoreAt(i))

\* C6 amended: a bitmap with at least one foreground pixel scores 1.0 against
\* an identical template; the all-false bitmap scores 0 against itself.
C6_IdenticalNonEmptyScoresOne ==
  Classified =>
    \A i \in Identical : IF Glyph.on # {} THEN IsOne(ScoreAt(i)) ELSE ScoreAt(i) = <<0, 1>>

\* A glyph with foreground was scored against a template identical to it.
C6_Witness == Classified /\ Identical # {} /\ Glyph.on # {} /\ IsOne(last.max_score)

\* C7: with an empty database no call raises, every character of the result
\* is "?", and recognize returns one "?" per retained component.
C7_EmptyDatabaseAllUnresolved ==
  (db = <<>> /\ pc # "idle")
    => /\ pc # "raised"
       /\ \A i \in 1 .. Len(result) : result[i] = "?"
       /\ pc = "returned" => Len(result) = Len(chars)

\* C8: with a database that has pairs, none of which has a nonzero union with
\* the glyph, the call returns "?".
C8_NoMatchGivesUnresolved ==
  (Classified /\ PairCount > 0 /\ AllScored
     /\ \A i \in 1 .. PairCount : Glyph.on \cup Broadcast(TemplateAt(i)) = {})
    => last.char = "?"

BoxH(region) == BBox(region).r1 - BBox(region).r0

BoxW(region) == BBox(region).c1 - BBox(region).c0

\* The mask holds exactly a 2-row by 10-column region and a 10-row by
\* 20-column region.
NoiseAndBlobMask ==
  /\ Len(labels) = 2
  /\ {<<BoxH(labels[i]), BoxW(labels[i])>> : i \in 1 .. 2} = {<<2, 10>>, <<10, 20>>}

\* C9: every array _extract_characters returns is higher than 5 and wider than
\* 2; the arrays are exactly the regions of the mask with such a bounding box,
\* one per region; the mask with a 2x10 and a 10x20 region gives the 10x20 one.
C9_OnlyLargeRegionsKept ==
  pc # "idle" =>
    /\ \A j \in 1 .. Len(chars) : chars[j].h > 5 /\ chars[j].w > 2
    /\ Len(chars) = Cardinality({i \in 1 .. Len(labels) : BoxH(labels[i]) > 5 /\ BoxW(labels[i]) > 2})
    /\ \A i \in 1 .. Len(labels) :
         (BoxH(labels[i]) > 5 /\ BoxW(labels[i]) > 2)
           <=> \E j \in 1 .. Len(chars) : chars[j] = CharArr(labels[i], BBox(labels[i]))
    /\ NoiseAndBlobMask => (Len(chars) = 1 /\ chars[1].h = 10 /\ chars[1].w = 20)

\* The call on the mask with the 2x10 and the 10x20 region kept one character.
C9_Witness == pc = "returned" /\ NoiseAndBlobMask /\ Len(chars) = 1

\* C10: the kept characters are in non-decreasing order of the starting column
\* of their region's bounding box, the returned list is that order, and the
\* result holds the characters recognize_char gives for them, in that order.
C10_LeftToRight ==
  pc # "idle" =>
    /\ \A i, j \in 1 .. Len(valid_chars) : i < j => valid_chars[i].start <= valid_chars[j].start
    /\ \A i \in 1 .. Len(valid_chars) :
         \E r \in 1 .. Len(labels) :
            /\ BBox(labels[r]).c0 = valid_chars[i].start
            /\ CharArr(labels[r], BBox(labels[r])) = valid_chars[i].arr
    /\ chars = [i \in 1 .. Len(valid_chars) |-> valid_chars[i].arr]
    /\ Len(result) = k - 1
    /\ \A i \in 1 .. Len(result) : result[i] = recognize_char(db, chars[i]).char

\* The labelling met the right-hand character first, and the two characters
\* were recognized as different labels.
C10_Witness ==
  /\ pc = "returned"
  /\ Len(labels) = 2
  /\ Len(chars) = 2
  /\ BBox(labels[1]).c0 > BBox(labels[2]).c0
  /\ Len(result) = 2
  /\ result[1] # result[2]
  /\ "?" \notin {result[1], result[2]}

\* C11: every recognize call ends by returning a string with exactly one
\* character per retained component, in the components' order; a component
\* whose glyph is unresolved (the normalizer gave None) has "?" at its own
\* position and the components after it are classified all the same.
C11_OneCharacterPerComponent ==
  pc \in {"returned", "raised"} =>
    /\ pc = "returned"
    /\ Len(result) = Len(chars)
    /\ \A i \in 1 .. Len(chars) :
         _normalize_char(chars[i]).kind = "None" => result[i] = "?"

\* The component the latest recognize_char call was given.
Component == chars[IF pc = "raised" THEN k ELSE k - 1]

\* The shape of the component's crop to its foreground (captcha.py:53-55).
CropH == (MaxOf({p[1] : p \in Component.on}) - MinOf({p[1] : p \in Component.on})) + 1

CropW == (MaxOf({p[2] : p \in Component.on}) - MinOf({p[2] : p \in Component.on})) + 1

\* C12: for every component with a foreground pixel the normalizer returns a
\* canvas of exactly 40x40: the scaled size int(h*s), int(w*s), s = min(40/h,
\* 40/w), is at most 40 both ways, both offsets are >= 0, the pasted block lies
\* inside the canvas, every pixel outside the block is zero, and the same
\* component gives the same canvas again.
C12_NormalizedFitsCanvas ==
  (last.normalized.kind # "none" /\ Component.on # {}) =>
    LET new_h == ScaledSize(CropH, CropH, CropW)
        new_w == ScaledSize(CropW, CropH, CropW)
        y_offset == (target_size - new_h) \div 2
        x_offset == (target_size - new_w) \div 2
    IN /\ Normalized
       /\ Glyph.h = 40 /\ Glyph.w = 40
       /\ new_h <= 40 /\ new_w <= 40
       /\ y_offset >= 0 /\ x_offset >= 0
       /\ y_offset + new_h <= 40 /\ x_offset + new_w <= 40
       /\ \A p \in Glyph.on :
            /\ p[1] >= y_offset /\ p[1] < y_offset + new_h
            /\ p[2] >= x_offset /\ p[2] < x_offset + new_w
       /\ _normalize_char(Component) = last.normalized

\* C13: no step of the recognizer changes the template database: the mapping
\* keeps its labels, their order, their template lists and every bitmap.
C13_DatabaseNeverChanges == [][db' = db]_vars

\* A call classified two components against a database of several templates
\* and returned their labels.
C13_Witness ==
  /\ pc = "returned"
  /\ PairCount > 1
  /\ Len(result) = 2
  /\ last.max_score[1] > 0

\* C14 (SpecLoader): the store is deserialized at most once, at most one
\* recognizer is ever constructed, and every thread that got a recognizer from
\* get_recognizer got the same one.
C14_LoadedOnce ==
  /\ Len(instances) <= 1
  /\ \A t, u \in Threads : (got[t] # None /\ got[u] # None) => got[t] = got[u]

\* C15 (SpecLoader): while the store file is absent no recognizer is
\* constructed, the global stays unset, no thread gets a recognizer or reaches
\* recognize, and every call goes from the test of the global to the load
\* attempt, which raises.
C15_MissingStoreLoadsNothing ==
  ~store.exists =>
    /\ _recognizer = None
    /\ instances = <<>>
    /\ \A t \in Threads :
         /\ tpc[t] \in {"idle", "test", "exists", "raised"}
         /\ loaded[t] = None
         /\ got[t] = None

\* With the file absent, a thread's second call has raised as its first did,
\* while the other thread's call raised too.
C15_Witness ==
  /\ ~store.exists
  /\ calls[1] = 2
  /\ tpc[1] = "raised"
  /\ calls[2] >= 1
  /\ tpc[2] = "raised"

\* Every bitmap of the mapping is 40x40.
GlyphShaped(mapping) ==
  \A i \in 1 .. Len(Pairs(mapping)) :
    Pairs(mapping)[i].template.h = 40 /\ Pairs(mapping)[i].template.w = 40

\* C16 (SpecLoader): a store whose mapping holds a bitmap that is not 40x40
\* makes load_recognizer fail and construct no recognizer; every recognizer
\* constructed holds 40x40 templates only.
C16_ShapeCheckedAtLoad ==
  /\ (store.exists /\ ~GlyphShaped(store.mapping)) => instances = <<>>
  /\ \A i \in 1 .. Len(instances) : GlyphShaped(instances[i])

\* What one recognize call, run alone on a new recognizer over the database,
\* gives for the image.
Alone(database, image) ==
  LET components == _extract_characters(_extract_red_mask(image))
      outcomes == [i \in 1 .. Len(components) |-> recognize_char(database, components[i])]
  IN IF \E i \in 1 .. Len(components) : outcomes[i].raised # "none"
     THEN [raised |-> TRUE, string |-> <<>>]
     ELSE [raised |-> FALSE, string |-> [i \in 1 .. Len(components) |-> outcomes[i].char]]

\* C17 (SpecThreads): whatever calls the thread made before and whatever the
\* other thread is doing, a recognize call that has ended returned the string,
\* or raised, exactly as a call run alone on the same database and image does.
C17_SameStringWhateverRan ==
  \A t \in Threads :
    t_pc[t] \in {"returned", "raised"} =>
      LET alone == Alone(db, t_img[t])
      IN IF alone.raised
         THEN t_pc[t] = "raised"
         ELSE t_pc[t] = "returned" /\ t_result[t] = alone.string

\* A thread returned a two-character string while the other thread was in the
\* middle of a call on another image.
C17_Witness ==
  \E t, u \in Threads :
    /\ t_pc[t] = "returned"
    /\ Len(t_result[t]) = 2
    /\ t_result[t][1] # t_result[t][2]
    /\ t_pc[u] = "loop"
    /\ t_k[u] = 2
    /\ t_img[u] # t_img[t]

\* The number of lines of a text: its "\n" tokens, and one more for a last line
\* that has none.
LineCount(text) ==
  Cardinality({i \in 1 .. Len(text) : text[i] = NL})
    + (IF text # <<>> /\ text[Len(text)] # NL THEN 1 ELSE 0)

Mentions(text, word) == \E i \in 1 .. Len(text) : text[i] = word

\* The markers each value of STOOQ_VERIFICATION_MARKERS asks for.
MarkersMeant(value) ==
  CASE value = <<>> -> {"AAPL.US", "^SPX", "^DJI", "GLD.US"}
    [] value = <<"TSLA.US">> -> {"TSLA.US"}
    [] value = <<" ", "TSLA.US", ",", " ", "^SPX", " ">> -> {"TSLA.US", "^SPX"}
    [] OTHER -> {}

\* C18 (SpecVerify): the verification leaves row_failed false exactly when the
\* file does not contain 'Unauthorized', its line count minus one is at least
\* 5, and it contains at least one required marker (the four defaults, or the
\* comma-separated ones of STOOQ_VERIFICATION_MARKERS); a file containing
\* 'Unauthorized' is rejected as unauthorized whatever else it holds, and no
\* other file is.
C18_AcceptedIffVerified ==
  v_pc = "done" =>
    /\ ~row_failed <=>
          /\ ~Mentions(file, "Unauthorized")
          /\ LineCount(file) - 1 >= 5
          /\ \E m \in MarkersMeant(env_markers) : Mentions(file, m)
    /\ unauthorized_detected <=> Mentions(file, "Unauthorized")
    /\ unauthorized_detected => row_failed

\* A file of a header and exactly 5 rows, the last without its "\n", was
\* accepted on the one marker it holds of the two the environment names.
C18_Witness ==
  /\ v_pc = "done"
  /\ ~row_failed
  /\ LineCount(file) = 6
  /\ file[Len(file)] # NL
  /\ Len(env_markers) = 6
  /\ found_markers = <<<<"TSLA.US">>>>

\* The call got the page and has returned.
Searched == l_pc = "done" /\ rows # <<>>

Rows1200 == {i \in 1 .. Len(rows) : Has1200(rows[i])}

\* The '12:00' row of the page.
Row1200 == rows[MinOf(Rows1200)]

\* The anchor of the row whose text ends in the i-th of _d, _h, _5.
LinkEnding(row, i) ==
  row.links[CHOOSE j \in 1 .. Len(row.links) : endswith(row.links[j].text, required[i])]

HasThree(row) ==
  \A i \in 1 .. 3 : \E j \in 1 .. Len(row.links) : endswith(row.links[j].text, required[i])

C20_FallsBackToLinksPresent ==
  (/\ Searched
   /\ Rows1200 = {}
   /\ \E r \in 1 .. Len(rows) : \E j \in 1 .. Len(row_links(rows[r])) : \E i \in 1 .. 3 :
        endswith(row_links(rows[r])[j].text, required[i])) =>
    /\ returned.kind = "list"
    /\ Len(returned.links) >= 1

\* The date the '12:00' row shows, as parsed and before any adjustment.
Parsed == reference_date(rows, now)

\* The weekend adjustment has run on a reference date.
Adjusted == l_pc \in {"select", "return", "done"} /\ rows # <<>> /\ Parsed # NoDate

\* C21: once the weekend adjustment has run, the target date is no Saturday
\* and no Sunday: it is the day before a Saturday reference date, two days
\* before a Sunday one and the reference date itself otherwise; the target
\* string is its MMDD, and the text of every link returned starts with it.
C21_TargetIsNoWeekendDay ==
  Adjusted =>
    /\ weekday(ref_date) \in 0 .. 4
    /\ DayNumber(ref_date) =
         DayNumber(Parsed) - (CASE weekday(Parsed) = 5 -> 1 [] weekday(Parsed) = 6 -> 2 [] OTHER -> 0)
    /\ target_date_str = MMDD(ref_date)
    /\ returned.kind = "list" =>
         \A i \in 1 .. Len(returned.links) : SubSeq(returned.links[i][2], 5, 8) = target_date_str

\* The '12:00' row of Sunday 1 Nov 2026 gave the target 1030 and the three
\* links of Friday 30 Oct.
C21_Witness ==
  /\ Searched
  /\ Parsed = Date(2026, 11, 1)
  /\ ref_date = Date(2026, 10, 30)
  /\ target_date_str = D1030
  /\ returned.kind = "list"
  /\ Len(returned.links) = 3

\* The month the '12:00' row shows.
StampMonth == MonthOf(DateParts(strip(Row1200.stamp))[2])

\* The year the names carry when a reference date was found: the current
\* year, the year before when it is January and the row shows December, and
\* one year less when the move back from a weekend left January for December.
NameYear ==
  LET row_year == IF now.month = 1 /\ StampMonth = 12 THEN now.year - 1 ELSE now.year
  IN IF StampMonth = 1 /\ ref_date.m = 12 THEN row_year - 1 ELSE row_year

SaveEnded == s_op = "save_session" /\ s_pc = "done"

\* Cookie i of context.cookies() carries a name and a value.
Named(i) == {"name", "value"} \subseteq cookies[i].keys

Copied ==
  {i \in 1 .. Len(cookies) :
     /\ Named(i)
     /\ "domain" \in cookies[i].keys
     /\ cookies[i].domain # <<>>
     /\ cookies[i].domain[Len(cookies[i].domain)] = "stooq.com"}

IsStooqDomain(domain) == domain = StooqCom \/ endswith(domain, DotStooqCom)

\* C24: every cookie save_session sets in the session was sent by stooq.com
\* or a subdomain of it, and none is stored under the bare 'stooq.com'.
C24_OnlyStooqDomainsCopied ==
  s_op = "save_session" =>
    \A j \in 1 .. Len(set_calls) :
      /\ \E i \in 1 .. Len(cookies) :
           /\ cookies[i].name = set_calls[j].name
           /\ cookies[i].value = set_calls[j].value
           /\ IsStooqDomain(cookies[i].domain)
      /\ set_calls[j].domain # StooqCom

\* The text holds none of the indicators of session_manager.py:88-95 (the
\* sixth, '401 Unauthorized', holds 'Unauthorized').
NoIndicator(text) ==
  \A word \in {<<"Unauthorized">>, <<"Access Denied">>, <<"403 Forbidden">>, <<"Please login">>,
               <<"Authorization required">>} :
    ~Contains(text, word)

NotFound == "Target date not found in available links"

\* C26: when get_latest_download_link returned its flat list of pairs and
\* the names in it contain the target date, run neither ends with 'Target
\* date ... not found in available links' nor raises while going through
\* the pairs.
C26_FlatListConsumed ==
  (/\ candidate_rows.shape = "flat"
   /\ \E i \in 1 .. Len(Flat0116) : Contains(Flat0116[i][2], target_date_clean)) =>
    /\ report.message # NotFound
    /\ run_returned # "raised"

\* The rows of the downloads attempted.
Tried == {attempted[i][1] : i \in 1 .. Len(attempted)}

\* C27: a run whose link scan returned the three links of a row, as
\* get_latest_download_link does, and which was not stopped by a failed
\* configuration, authorization or verification, ends reporting 'completed'
\* with the three names; and 'completed' is reported only with the names of
\* all the links of one row, each downloaded once and all kept in data_dir.
C27_SuccessReachableAndSound ==
  /\ (r_pc = "done" /\ candidate_rows.shape = "flat") =>
       report = Success("completed", NamesOf(Flat0116))
  /\ report.message = "completed" =>
       /\ success_row_index \in 1 .. Len(candidate_rows.rows)
       /\ report.files = NamesOf(candidate_rows.rows[success_row_index])
       /\ Tried = {success_row_index}
       /\ Range(report.files) \subseteq data_dir
       /\ ~r_row_failed

DateRowFailed == r_pc = "done" /\ args.date # NoDate /\ r_row_failed

UnauthorizedAt ==
  {i \in 1 .. Len(trace) :
     trace[i].op = "download_with_browser" /\ trace[i].result = "unauthorized"}

\* C31: once a downloaded file held 'Unauthorized', run attempts no further
\* download, of that row or of a later one, and does nothing but end: when it
\* has ended, no file of that row is in data_dir, the browser is closed, and
\* run reported 'Unauthorized access detected ...' and returned False,
\* whether --date was given or not and whether rows remain or not.
C31_UnauthorizedStopsRun ==
  \A i \in UnauthorizedAt :
    /\ \A j \in i + 1 .. Len(trace) : trace[j].op = "close"
    /\ r_pc \in {"row_end", "done"}
    /\ r_pc = "done" =>
         /\ \A n \in 1 .. Len(attempted) :
              attempted[n][1] = row_idx => attempted[n][2] \notin data_dir
         /\ browser = [state |-> "closed", closes |-> 1]
         /\ report = Fail("Unauthorized access detected")
         /\ run_returned = "False"

\* Without --date, the second file of the first of two rows held
\* 'Unauthorized': the run has ended, nothing of the second row was tried.
C31_Witness ==
  /\ UnauthorizedAt # {}
  /\ r_pc = "done"
  /\ args.date = NoDate
  /\ Len(candidate_rows.rows) = 2
  /\ row_idx = 1
  /\ Len(attempted) = 2
  /\ report.message = "Unauthorized access detected"

\* The first scan of the run has returned and the second has not.
AfterFirstScan == Len(scans) = 1

\* The names of the row the first scan puts first: the links of the list
\* get_latest_download_link returns, or the first of a list of rows.
FirstRowNames ==
  IF scans[1].shape = "flat" THEN NamesOf(scans[1].rows) ELSE NamesOf(scans[1].rows[1])

\* The first scan found links, and every file of its first row is in
\* data_dir.
FilesExist == AfterFirstScan /\ scans[1].rows # <<>> /\ Range(FirstRowNames) \subseteq data_dir

\* C32: when the first scan found links whose files all exist, then without
\* --force and without --date run reports 'skipped' with those names and
\* returns True, the browser never launched; with --force run has launched
\* the browser; and with --force run never reports 'skipped'.
C32_SkipAndForce ==
  /\ (FilesExist /\ ~args.force /\ args.date = NoDate) =>
       /\ report = Success("skipped", FirstRowNames)
       /\ run_returned = "True"
       /\ browser.state = "none"
  /\ (FilesExist /\ args.force) => browser.state # "none"
  /\ args.force => report.message # "skipped"

\* The places of the trace where run called op and got outcome.
CallsOf(op, outcome) == {i \in 1 .. Len(trace) : trace[i] = Call(op, outcome)}

\* The steps between the launch of the browser and the downloads.
Steps == {"configure_stooq_settings", "solve_stooq_captcha", "save_session", "load_session"}

\* A step that did not come out well.
FailedSteps ==
  {i \in 1 .. Len(trace) : trace[i].op \in Steps /\ trace[i].result \in {"False", "raised"}}

\* C33: every download of a run comes after, in this order,
\* configure_stooq_settings returned True, solve_stooq_captcha returned True,
\* save_session returned and load_session returned True; and once one of
\* the four has failed the run has ended without a download and without
\* success: it returned False after a failure report, or the exception of
\* save_session left run.
C33_WorkflowOrdering ==
  /\ \A i \in 1 .. Len(trace) :
       trace[i].op = "download_with_browser" =>
         \E a \in CallsOf("configure_stooq_settings", "True") :
           \E b \in CallsOf("solve_stooq_captcha", "True") :
             \E c \in CallsOf("save_session", "None") :
               \E d \in CallsOf("load_session", "True") :
                 a < b /\ b < c /\ c < d /\ d < i
  /\ FailedSteps # {} =>
       /\ r_pc = "done"
       /\ attempted = <<>>
       /\ CallsOf("download_with_browser", "ok") = {}
       /\ \/ run_returned = "False" /\ report.kind = "fail"
          \/ run_returned = "raised" /\ report = NoReport /\ trace[Len(trace)].op = "save_session"

\* A run has downloaded the three files of a row after the four steps.
C33_Witness ==
  /\ Len(attempted) = 3
  /\ Cardinality(CallsOf("download_with_browser", "ok")) = 3
  /\ CallsOf("load_session", "True") # {}

\* run has returned a value, after the browser was launched.
ReturnedAfterLaunch ==
  r_pc = "done" /\ run_returned \in {"True", "False"} /\ browser.state # "none"

\* C34: when run has returned a value after the browser was launched,
\* browser.close() was called exactly once, after the launch and after every
\* other call run made in the browser workflow.
C34_BrowserClosedOnce ==
  ReturnedAfterLaunch =>
    /\ browser = [state |-> "closed", closes |-> 1]
    /\ Cardinality(CallsOf("close", "None")) = 1
    /\ Cardinality(CallsOf("launch", "None")) = 1
    /\ trace[1].op = "launch"
    /\ trace[Len(trace)].op = "close"

\* A run came to the end of the download loop with a row that passed, and
\* returned True.
C34_Witness ==
  /\ ReturnedAfterLaunch
  /\ report.message = "completed"
  /\ browser.closes = 1

\* The attempts in which an answer was typed or sent.
Answered == {filled[i].attempt : i \in 1 .. Len(filled)} \cup
            {submitted[i].attempt : i \in 1 .. Len(submitted)}

\* Attempt a of solve_stooq_captcha is over.
Over(a) == c_pc = "done" \/ c_attempt > a

\* C35, second half: each answer sent with Enter was read from the image of
\* a response captured in the attempt that sends it, and no attempt sends
\* two: never the answer of an earlier attempt's image.
AnswersAreFresh ==
  /\ \A i \in 1 .. Len(submitted) :
       /\ Len(submitted[i].answer) = 2
       /\ submitted[i].answer[1] = submitted[i].attempt
       /\ \A j \in 1 .. Len(submitted) : submitted[j].attempt = submitted[i].attempt => j = i
  /\ \A i \in 1 .. Len(filled) : filled[i].answer[1] = filled[i].attempt

\* C35 as stated: in an attempt of which the listener captured a download,
\* no answer is typed or sent, and when the attempt is over its first
\* download has been cancelled and the call has returned True; and the
\* answers are fresh.
C35_DownloadMeansAuthorized ==
  /\ \A a \in seen :
       /\ a \notin Answered
       /\ Over(a) => (<<a, 1>> \in Range(cancelled) /\ c_returned = "True")
  /\ AnswersAreFresh

\* C35 amended: in an attempt whose click step ended with a download
\* captured, no answer is typed or sent, the first download is cancelled and
\* the call returns True from that attempt; a download is cancelled only as
\* the first of its attempt, once, and only in an attempt that ends the call
\* with True; and the answers are fresh.
C35_EarlyDownloadMeansAuthorized ==
  /\ \A a \in authorized_at_click :
       /\ a \notin Answered
       /\ <<a, 1>> \in Range(cancelled)
       /\ captcha_solved
       /\ c_attempt = a
       /\ c_pc \in {"finally", "done"}
       /\ c_pc = "done" => c_returned = "True"
  /\ Len(cancelled) <= 1
  /\ cancelled # <<>> =>
       /\ cancelled[1] = <<c_attempt, 1>>
       /\ c_attempt \in seen
       /\ captcha_solved
       /\ c_pc = "done" => c_returned = "True"
  /\ AnswersAreFresh

\* Two attempts sent an answer that was found incorrect, each read from its
\* own image; in the third the click brought a download, and the call
\* returned True.
C35_Witness ==
  /\ c_pc = "done"
  /\ c_returned = "True"
  /\ Len(submitted) = 2
  /\ c_attempt = 2
  /\ authorized_at_click = {2}
  /\ cancelled = <<<<2, 1>>>>

\* Pixel p of the image of the call passes the threshold of captcha.py:31.
RawForeground(p) == img.px[p][1] > 100 /\ img.px[p][2] < 140 /\ img.px[p][3] < 140

\* How many of the nine samples of the 3x3 window around p pass it, the
\* samples beyond an edge being those of the edge.
ForegroundAround(p) ==
  Cardinality({d \in (-1 .. 1) \X (-1 .. 1) :
     RawForeground(<<Reflect(p[1] + d[1], img.h), Reflect(p[2] + d[2], img.w)>>)})

\* C36: in every recognize call the mask the regions are found in has the
\* height and width of the image, and a cell is set in it exactly when at
\* least five of the nine samples of its 3x3 window, taken from the pixels
\* with red > 100, green < 140 and blue < 140, are foreground: the median
\* of the threshold mask, not the threshold mask.
C36_SegmenterGetsFilteredMask ==
  pc # "idle" =>
    /\ mask.h = img.h
    /\ mask.w = img.w
    /\ mask.on = {p \in Cells(img.h, img.w) : ForegroundAround(p) >= 5}
    /\ labels = label(mask.on)
    /\ chars = _extract_characters(mask)

\* A call on an image in the colour (101, 139, 139): the block is in the
\* mask, and the speck and the corners of the block, foreground before the
\* filter, are not.
C36_Witness ==
  /\ pc = "returned"
  /\ \E p \in mask.on : img.px[p] = <<101, 139, 139>>
  /\ \E p \in Cells(img.h, img.w) : RawForeground(p) /\ p \notin mask.on
  /\ Len(chars) = 1

====
